---- MODULE Spec2Model ----
(***************************************************************************)
(* A model of bridge-console's security agent (src/security-agent).         *)
(*                                                                         *)
(* The patch engine (patcher.py): SecurityPatcher.apply_fix with its three *)
(* strategies, apply_batch, get_summary and apply_security_fixes.          *)
(* The scanner (scanner.py, pattern_detector.py, language_detector.py,     *)
(* security_policies.py, config.py): SecurityScanner.scan and the stages   *)
(* it runs, the repository walk, the rule matching of a file's lines and   *)
(* the classifier.                                                         *)
(*                                                                         *)
(* Specifications: Spec (apply_fix calls), SpecBatch (apply_security_fixes)*)
(* SpecClassify (normalize_and_prioritize), SpecScan (a whole scan),       *)
(* SpecScanFile (scan_file on one list of lines) and SpecSummary           *)
(* (_build_summary and the return of scan).                                *)
(*                                                                         *)
(* Text is a sequence of one-character strings, so that the string         *)
(* operations of the code (split, strip, join, in, replace) are computed   *)
(* character by character as Python computes them.                         *)
(***************************************************************************)
EXTENDS Integers, Sequences, FiniteSets, TLC

VARIABLES
    fs,               \* the regular files of the repository: name -> content
    applied_patches,  \* SecurityPatcher.applied_patches
    failed_patches,   \* SecurityPatcher.failed_patches
    findings,         \* apply_batch's findings argument (a list)
    fixes,            \* apply_batch's fixes argument, in dict iteration order
    pos,              \* position of apply_batch's loop in fixes (1-based)
    results,          \* apply_batch's results dictionary
    summary,          \* the value get_summary returned, once it has been called
    pc,               \* where the caller of the patcher is
    calls,            \* history: one record per apply_fix call, in call order
    stage,            \* where the scanner is
    request,          \* the arguments of the call under way (scan, scan_file)
    repo_files,       \* the files of the repository to scan
    temp_dir,         \* the temporary directory of a clone: none, cloned, removed
    languages,        \* the languages get_languages_in_repo returned
    walk_stack,       \* os.walk: the directories still to be yielded, next first
    walk_queue,       \* the files of the yielded directory still to be visited
    elapsed,          \* seconds since pattern_detector.scan was entered
    scan_log,         \* history: one record per file the walk visited
    scan_findings,    \* the findings list of pattern_detector.scan
    prioritized,      \* the list normalize_and_prioritize returned
    explained,        \* the list explain_and_suggest returned
    scan_summary,     \* the value _build_summary returned, once it was called
    exception,        \* the exception raised inside scan's try block, if any
    scan_result       \* what SecurityScanner.scan handed to its caller

patcherVars == <<fs, applied_patches, failed_patches, findings, fixes, pos,
                 results, summary, pc, calls>>

\* what a scan is given
scanInputs == <<request, repo_files>>

\* the state of the repository walk
walkVars == <<walk_stack, walk_queue, elapsed, scan_log>>

\* the values the stages of a scan hand on
stageVars == <<temp_dir, languages, scan_findings, prioritized, explained,
               scan_summary, exception, scan_result>>

scannerVars == <<stage, scanInputs, walkVars, stageVars>>

vars == <<patcherVars, scannerVars>>

----------------------------------------------------------------------------
(* Bounds of the model *)

\* apply_fix calls made directly on one patcher (specification Spec)
MaxCalls == 2
\* length of the findings list of a batch (specification SpecBatch)
MaxFindings == 2
\* number of entries of the fixes mapping of a batch
MaxFixes == 2

----------------------------------------------------------------------------
(* Characters and text *)

NL == "\n"
SP == " "
TAB == "\t"

\* what str.strip(), str.lstrip() and str.split() treat as whitespace
Whitespace == {SP, TAB, NL}

\* the slice length of a result's 'original' and 'replacement' fields
TruncLen == 100

\* s[i:] of Python for a 1-based i
Drop(s, i) == SubSeq(s, i, Len(s))

\* s.lstrip()
RECURSIVE lstrip(_)
lstrip(s) ==
    IF s = <<>> THEN <<>>
    ELSE IF Head(s) \in Whitespace THEN lstrip(Tail(s)) ELSE s

\* s.rstrip()
RECURSIVE rstrip(_)
rstrip(s) ==
    IF s = <<>> THEN <<>>
    ELSE IF s[Len(s)] \in Whitespace THEN rstrip(SubSeq(s, 1, Len(s) - 1)) ELSE s

\* s.strip()
strip(s) == rstrip(lstrip(s))

\* s.split(NL): the pieces between the line feeds, at least one piece
RECURSIVE split_lines(_)
split_lines(s) ==
    IF \A i \in 1..Len(s) : s[i] # NL THEN <<s>>
    ELSE LET i == CHOOSE k \in 1..Len(s) :
                      s[k] = NL /\ \A j \in 1..(k - 1) : s[j] # NL
         IN <<SubSeq(s, 1, i - 1)>> \o split_lines(Drop(s, i + 1))

\* sep.join(parts)
RECURSIVE join(_, _)
join(sep, parts) ==
    IF parts = <<>> THEN <<>>
    ELSE IF Len(parts) = 1 THEN parts[1]
    ELSE parts[1] \o sep \o join(sep, Tail(parts))

\* s.split(): the maximal runs of non-whitespace characters
RECURSIVE split_words(_)
split_words(s) ==
    LET t == lstrip(s) IN
    IF t = <<>> THEN <<>>
    ELSE LET n == IF \E k \in 1..Len(t) : t[k] \in Whitespace
                  THEN (CHOOSE k \in 1..Len(t) :
                            t[k] \in Whitespace
                            /\ \A j \in 1..(k - 1) : t[j] \notin Whitespace) - 1
                  ELSE Len(t)
         IN <<SubSeq(t, 1, n)>> \o split_words(Drop(t, n + 1))

\* ' '.join(s.split())
normalize(s) == join(<<SP>>, split_words(s))

\* does needle occur in hay at 1-based position i
OccursAt(hay, needle, i) ==
    /\ i >= 1
    /\ i + Len(needle) - 1 <= Len(hay)
    /\ SubSeq(hay, i, i + Len(needle) - 1) = needle

\* needle in hay
contains(hay, needle) == \E i \in 1..(Len(hay) + 1) : OccursAt(hay, needle, i)

\* hay.find(needle) + 1, for a needle that occurs
find(hay, needle) ==
    CHOOSE i \in 1..(Len(hay) + 1) :
        OccursAt(hay, needle, i) /\ \A j \in 1..(i - 1) : ~OccursAt(hay, needle, j)

\* content[:i-1] + new + content[i-1+n:] for a 1-based i
splice(content, i, n, new) ==
    SubSeq(content, 1, i - 1) \o new \o Drop(content, i + n)

\* a replace that takes the last occurrence instead of the first
replace_last(content, old, new) ==
    IF ~contains(content, old) THEN content
    ELSE splice(content,
                CHOOSE i \in 1..(Len(content) + 1) :
                    /\ OccursAt(content, old, i)
                    /\ \A j \in (i + 1)..(Len(content) + 1) : ~OccursAt(content, old, j),
                Len(old), new)

\* content.replace(old, new, 1)
replace_first(content, old, new) ==
    IF ~contains(content, old) THEN content
    ELSE splice(content, find(content, old), Len(old), new)

\* ' ' * n
RECURSIVE spaces(_)
spaces(n) == IF n <= 0 THEN <<>> ELSE <<SP>> \o spaces(n - 1)

\* s[:100] + ('...' if len(s) > 100 else '')
truncate_dots(s) ==
    IF Len(s) > TruncLen THEN SubSeq(s, 1, TruncLen) \o <<".", ".", ".">> ELSE s

\* s[:100]
truncate(s) == IF Len(s) > TruncLen THEN SubSeq(s, 1, TruncLen) ELSE s

----------------------------------------------------------------------------
(* The repository on disk *)

\* a path of the repository that is a directory: it exists, and open() raises
Directories == {"d"}

\* a path of the repository that does not exist
MissingFiles == {"m"}

\* os.path.exists(file_path)
path_exists(fsys, file) == file \in DOMAIN fsys \/ file \in Directories

----------------------------------------------------------------------------
(* SecurityPatcher *)

NoText == <<>>

\* the dictionaries the patcher returns, with every key present: a key the
\* code leaves out holds the default the code reads it with ('' or 0)
Result(success, error, strategy, file, line, original, replacement) ==
    [success |-> success, error |-> error, strategy |-> strategy, file |-> file,
     line |-> line, original |-> original, replacement |-> replacement]

\* what a strategy hands back: the result dictionary, the strategies that ran,
\* and the content of the file afterwards
Outcome(result, tried, content) ==
    [result |-> result, tried |-> tried, content |-> content]

\* ' ' * indent + new_code.lstrip(), indent being the number of leading
\* whitespace characters of the line
indented(line, new_code) ==
    spaces(Len(line) - Len(lstrip(line))) \o lstrip(new_code)

\* a range check that lets a line number past the end through, to the last line
apply_line_replacement_clamped(file, lines, line_number, old_code, new_code) ==
    IF line_number < 1
    THEN Outcome(Result(FALSE, "out_of_range", "none", "", 0, NoText, NoText),
                 <<"line">>, join(<<NL>>, lines))
    ELSE Outcome(Result(TRUE, "none", "line_replacement", file, line_number,
                        NoText, strip(new_code)),
                 <<"line">>,
                 join(<<NL>>, [lines EXCEPT ![IF line_number > Len(lines)
                                             THEN Len(lines) ELSE line_number] =
                                       indented(@, new_code)]))

\* a line replacement that ends the content it writes with a newline
apply_line_replacement_newline_at_end(file, lines, line_number, old_code, new_code) ==
    IF line_number < 1 \/ line_number > Len(lines)
    THEN Outcome(Result(FALSE, "out_of_range", "none", "", 0, NoText, NoText),
                 <<"line">>, join(<<NL>>, lines))
    ELSE Outcome(Result(TRUE, "none", "line_replacement", file, line_number,
                        strip(lines[line_number]), strip(new_code)),
                 <<"line">>,
                 join(<<NL>>, [lines EXCEPT
                                   ![line_number] = indented(@, new_code)])
                     \o <<NL>>)

\* SecurityPatcher._apply_line_replacement
apply_line_replacement(file, lines, line_number, old_code, new_code) ==
    IF line_number < 1 \/ line_number > Len(lines)
    THEN Outcome(Result(FALSE, "out_of_range", "none", "", 0, NoText, NoText),
                 <<"line">>, join(<<NL>>, lines))
    ELSE Outcome(Result(TRUE, "none", "line_replacement", file, line_number,
                        strip(lines[line_number]), strip(new_code)),
                 <<"line">>,
                 join(<<NL>>, [lines EXCEPT
                                   ![line_number] = indented(@, new_code)]))

\* the test of the fuzzy loop of _apply_block_replacement on one line
fuzzy_hit(normalized_old, normalized_line) ==
    \/ contains(normalized_line, normalized_old)
    \/ contains(normalized_old, normalized_line)

\* the first line (1-based) the fuzzy loop accepts, 0 when it accepts none
fuzzy_target(lines, normalized_old) ==
    CHOOSE k \in 0..Len(lines) :
        /\ k > 0 => fuzzy_hit(normalized_old, normalize(lines[k]))
        /\ \A j \in 1..Len(lines) :
               (k = 0 \/ j < k) => ~fuzzy_hit(normalized_old, normalize(lines[j]))

\* a fuzzy branch that opens the file for writing before it looks for the
\* line, and so leaves it empty when it finds none
fuzzy_replacement_truncating(file, content, lines, line_num, new_code) ==
    IF line_num > 0
    THEN Outcome(Result(TRUE, "none", "fuzzy_replacement", file, line_num,
                        truncate(strip(lines[line_num])), truncate(strip(new_code))),
                 <<"block", "fuzzy">>,
                 join(<<NL>>, [lines EXCEPT ![line_num] = indented(@, new_code)]))
    ELSE Outcome(Result(FALSE, "could_not_locate", "none", file, 0, NoText, NoText),
                 <<"block", "fuzzy">>, <<>>)

\* the fuzzy branch of _apply_block_replacement, line_num being the line the
\* loop stopped at (0: the loop ran to its end)
fuzzy_replacement(file, content, lines, line_num, new_code) ==
    IF line_num > 0
    THEN Outcome(Result(TRUE, "none", "fuzzy_replacement", file, line_num,
                        truncate(strip(lines[line_num])), truncate(strip(new_code))),
                 <<"block", "fuzzy">>,
                 join(<<NL>>, [lines EXCEPT ![line_num] = indented(@, new_code)]))
    ELSE Outcome(Result(FALSE, "could_not_locate", "none", file, 0, NoText, NoText),
                 <<"block", "fuzzy">>, content)

\* SecurityPatcher._apply_block_replacement
apply_block_replacement(file, content, old_code, new_code, finding) ==
    IF contains(content, old_code)
    THEN Outcome(Result(TRUE, "none", "block_replacement", file, finding.line,
                        truncate_dots(old_code), truncate_dots(new_code)),
                 <<"block">>,
                 replace_first(content, old_code, new_code))
    ELSE fuzzy_replacement(file, content, split_lines(content),
                           fuzzy_target(split_lines(content), normalize(old_code)),
                           new_code)

\* what apply_fix hands back: the result returned, the ledger the result was
\* appended to ("none" when it was appended to neither), the strategies that
\* ran, and the files afterwards
FixOutcome(result, ledger, tried, fsys) ==
    [result |-> result, ledger |-> ledger, tried |-> tried, fs |-> fsys]

\* the condition of strategy 1 in apply_fix
single_line_fix(solution_code, line_number) ==
    /\ \A i \in 1..Len(solution_code) : solution_code[i] # NL
    /\ line_number > 0

\* an apply_fix without the early return of strategy 1: strategy 2 runs after
\* a line replacement that succeeded, on the content read at the start
apply_strategies_no_early_return(fsys, file, try_line, lr, br) ==
    FixOutcome(br.result,
               IF br.result.success THEN "applied" ELSE "failed",
               (IF try_line THEN lr.tried ELSE <<>>) \o br.tried,
               [fsys EXCEPT ![file] = br.content])

\* apply_fix from strategy 1 on: lr is what _apply_line_replacement returns
\* when it is called, br what _apply_block_replacement returns
apply_strategies(fsys, file, try_line, lr, br) ==
    IF try_line /\ lr.result.success
    THEN FixOutcome(lr.result, "applied", lr.tried,
                    [fsys EXCEPT ![file] = lr.content])
    ELSE FixOutcome(br.result,
                    IF br.result.success THEN "applied" ELSE "failed",
                    (IF try_line THEN lr.tried ELSE <<>>) \o br.tried,
                    [fsys EXCEPT ![file] = br.content])

\* an apply_fix that hands a blank replacement on to the strategies
apply_fix_read_unchecked(fsys, finding, original_content, problematic_code, solution_code) ==
    apply_strategies(
        fsys, finding.file,
        single_line_fix(solution_code, finding.line),
        apply_line_replacement(finding.file, split_lines(original_content),
                               finding.line, problematic_code, solution_code),
        apply_block_replacement(finding.file, original_content,
                                problematic_code, solution_code, finding))

\* apply_fix once the file has been read
apply_fix_read(fsys, finding, original_content, problematic_code, solution_code) ==
    IF solution_code = <<>>
    THEN FixOutcome(Result(FALSE, "no_solution_code", "none", "", 0, NoText, NoText),
                    "none", <<>>, fsys)
    ELSE apply_strategies(
             fsys, finding.file,
             single_line_fix(solution_code, finding.line),
             apply_line_replacement(finding.file, split_lines(original_content),
                                    finding.line, problematic_code, solution_code),
             apply_block_replacement(finding.file, original_content,
                                     problematic_code, solution_code, finding))

\* SecurityPatcher.apply_fix
apply_fix(fsys, finding, fix) ==
    IF ~path_exists(fsys, finding.file)
    THEN FixOutcome(Result(FALSE, "file_not_found", "none", "", 0, NoText, NoText),
                    "none", <<>>, fsys)
    ELSE IF finding.file \in Directories
    THEN \* open() raises and the except clause records the error
         FixOutcome(Result(FALSE, "exception", "none", finding.file, 0,
                           NoText, NoText),
                    "failed", <<>>, fsys)
    ELSE apply_fix_read(fsys, finding, fsys[finding.file], strip(finding.code),
                        strip(fix.solution_code))

\* SecurityPatcher.get_summary
get_summary(applied, failed) ==
    [total_applied |-> Len(applied),
     total_failed |-> Len(failed),
     applied |-> applied,
     failed |-> failed,
     files_modified |-> {applied[i].file : i \in {j \in 1..Len(applied) :
                                                      applied[j].success}}]

\* one iteration of apply_batch's loop body after apply_fix returned: the
\* result goes to results['applied'] or results['failed'] and is counted
record_result(res, result) ==
    IF result.success
    THEN [res EXCEPT !.applied = Append(@, result), !.success_count = @ + 1]
    ELSE [res EXCEPT !.failed = Append(@, result), !.failure_count = @ + 1]

\* a loop that gives up at the first failed fix
loop_over_stop_on_failure(fixmap, p, res) ==
    p > Len(fixmap) \/ res.failure_count > 0

\* apply_batch's for loop is over: every entry of fixes has been visited
loop_over(fixmap, p, res) == p > Len(fixmap)

\* the guard of apply_batch's `continue`: the index has no finding
no_finding(idx, flist) == idx >= Len(flist)

----------------------------------------------------------------------------
(* Inputs *)

L_ab == <<"a", "b">>
L_a_b == <<"a", SP, "b">>
L_a__b == <<"a", SP, SP, "b">>
L_4ab == <<SP, SP, SP, SP, "a", "b">>
L_tab == <<TAB, "a", "b">>
L_b == <<"b">>
L_blank == <<>>

\* the regular files of the repository
RegularFiles == {"f"}

\* contents a file starts with, as lists of lines
InitialLines ==
    { <<L_ab>>, <<L_ab, L_ab>>, <<L_ab, L_blank>>, <<L_blank, L_ab>>,
      <<L_a_b>>, <<L_a__b>>, <<L_4ab, L_tab>>, <<L_a_b, L_ab>>,
      <<L_b, L_ab>> }

InitialTexts == { join(<<NL>>, ls) : ls \in InitialLines }

\* the code text a finding carries
Codes == { L_ab, L_a_b, <<"c">> }

\* the replacement a fix carries: one line, two lines, blank
Solutions == { <<"d">>, <<"d", NL, "e">>, <<SP>> }

Finding(file, line, code) == [file |-> file, line |-> line, code |-> code]

Fix(solution_code) == [solution_code |-> solution_code]

\* the findings a caller passes for the repository as it is: every line number
\* from 0 to one past the end of the file, and a finding of a missing path and
\* of a directory
FindingInputs(fsys) ==
    UNION { { Finding(f, n, c) : n \in 0..(Len(split_lines(fsys[f])) + 1),
                                 c \in Codes } : f \in DOMAIN fsys }
    \cup { Finding(f, 1, L_ab) : f \in MissingFiles \cup Directories }

FixInputs == { Fix(s) : s \in Solutions }

NoResults ==
    [applied |-> <<>>, failed |-> <<>>, total |-> 0,
     success_count |-> 0, failure_count |-> 0]

\* the record of one apply_fix call: its arguments, the files before and
\* after, and what apply_fix did
CallRecord(entry, finding, fix, pre, out) ==
    [entry |-> entry, finding |-> finding, fix |-> fix, pre |-> pre,
     post |-> out.fs, result |-> out.result, ledger |-> out.ledger,
     tried |-> out.tried]

\* the effect of an apply_fix call that hands back out
ApplyFixEffect(entry, finding, fix, out) ==
    /\ fs' = out.fs
    /\ applied_patches' = IF out.ledger = "applied"
                          THEN Append(applied_patches, out.result)
                          ELSE applied_patches
    /\ failed_patches' = IF out.ledger = "failed"
                         THEN Append(failed_patches, out.result)
                         ELSE failed_patches
    /\ calls' = Append(calls, CallRecord(entry, finding, fix, fs, out))

\* one apply_fix call on the patcher
DoApplyFix(entry, finding, fix) ==
    ApplyFixEffect(entry, finding, fix, apply_fix(fs, finding, fix))

\* the scanner before a scan: nothing walked, nothing found, nothing returned
ScannerFresh ==
    /\ temp_dir = "none"
    /\ languages = <<>>
    /\ walk_stack = <<>>
    /\ walk_queue = <<>>
    /\ elapsed = 0
    /\ scan_log = <<>>
    /\ prioritized = <<>>
    /\ explained = <<>>
    /\ scan_summary = <<>>
    /\ exception = <<>>
    /\ scan_result = <<>>

\* no scan has been asked for
ScannerIdle ==
    /\ stage = "idle"
    /\ request = [target |-> "none"]
    /\ repo_files = {}
    /\ scan_findings = <<>>
    /\ ScannerFresh

----------------------------------------------------------------------------
(* Specification Spec: a caller uses one SecurityPatcher directly *)

Init ==
    /\ fs \in [RegularFiles -> InitialTexts]
    /\ applied_patches = <<>>
    /\ failed_patches = <<>>
    /\ findings = <<>>
    /\ fixes = <<>>
    /\ pos = 0
    /\ results = NoResults
    /\ summary = <<>>
    /\ pc = "idle"
    /\ calls = <<>>
    /\ ScannerIdle

\* patcher.apply_fix(finding, fix)
CallApplyFix ==
    /\ pc = "idle"
    /\ Len(calls) < MaxCalls
    /\ \E finding \in FindingInputs(fs), fix \in FixInputs :
           DoApplyFix(0, finding, fix)
    /\ UNCHANGED <<findings, fixes, pos, results, summary, pc>>
    /\ UNCHANGED scannerVars

Next == CallApplyFix

Spec == Init /\ [][Next]_vars

----------------------------------------------------------------------------
(* Specification SpecBatch: apply_security_fixes(repo_path, findings, fixes) *)

\* contents a file of a patched repository starts with
BatchLines == { <<L_ab, L_ab>>, <<L_b, L_ab>> }

BatchTexts == { join(<<NL>>, ls) : ls \in BatchLines }

\* the findings of a batch: each line of the file with a code text (the last
\* one occurs in no file), a finding of a missing path and a finding of a
\* directory
BatchFindingInputs(fsys) ==
    UNION { { Finding(f, n, c) : n \in 1..Len(split_lines(fsys[f])),
                                 c \in {L_ab, L_b, <<"c">>} } : f \in DOMAIN fsys }
    \cup { Finding(f, 1, L_ab) : f \in MissingFiles \cup Directories }

\* the replacements of a batch: one line, two lines
BatchFixInputs == { Fix(<<"d">>), Fix(<<"d", NL, "e">>) }

\* the lists of at most n elements of S
RECURSIVE SeqsUpTo(_, _)
SeqsUpTo(S, n) ==
    IF n = 0 THEN { <<>> }
    ELSE LET shorter == SeqsUpTo(S, n - 1)
         IN shorter \cup { Append(q, x) : q \in shorter, x \in S }

\* a fixes mapping in iteration order: the keys of a dict are distinct
FixMappings ==
    { m \in SeqsUpTo([idx : 0..MaxFindings, fix : BatchFixInputs], MaxFixes) :
          \A i, j \in 1..Len(m) : i # j => m[i].idx # m[j].idx }

InitBatch ==
    /\ fs \in [RegularFiles -> BatchTexts]
    /\ applied_patches = <<>>
    /\ failed_patches = <<>>
    /\ findings \in SeqsUpTo(BatchFindingInputs(fs), MaxFindings)
    /\ fixes \in FixMappings
    /\ pos = 0
    /\ results = NoResults
    /\ summary = <<>>
    /\ pc = "start"
    /\ calls = <<>>
    /\ ScannerIdle

\* apply_security_fixes builds the patcher and enters apply_batch, which
\* builds its results dictionary
ApplySecurityFixes ==
    /\ pc = "start"
    /\ applied_patches' = <<>>
    /\ failed_patches' = <<>>
    /\ results' = [NoResults EXCEPT !.total = Len(fixes)]
    /\ pos' = 1
    /\ pc' = "loop"
    /\ UNCHANGED <<fs, findings, fixes, summary, calls>>
    /\ UNCHANGED scannerVars

\* an iteration of apply_batch's loop that takes the `continue`
BatchSkip ==
    /\ pc = "loop"
    /\ ~loop_over(fixes, pos, results)
    /\ no_finding(fixes[pos].idx, findings)
    /\ pos' = pos + 1
    /\ UNCHANGED <<fs, applied_patches, failed_patches, findings, fixes, results,
                   summary, pc, calls>>
    /\ UNCHANGED scannerVars

\* an iteration of apply_batch's loop that calls apply_fix
BatchApply ==
    /\ pc = "loop"
    /\ ~loop_over(fixes, pos, results)
    /\ ~no_finding(fixes[pos].idx, findings)
    /\ DoApplyFix(pos, findings[fixes[pos].idx + 1], fixes[pos].fix)
    /\ results' = record_result(results, calls'[Len(calls')].result)
    /\ pos' = pos + 1
    /\ UNCHANGED <<findings, fixes, summary, pc>>
    /\ UNCHANGED scannerVars

\* apply_batch returns and apply_security_fixes stores get_summary() in the
\* results it returns
BatchReturn ==
    /\ pc = "loop"
    /\ loop_over(fixes, pos, results)
    /\ summary' = <<get_summary(applied_patches, failed_patches)>>
    /\ pc' = "done"
    /\ UNCHANGED <<fs, applied_patches, failed_patches, findings, fixes, pos,
                   results, calls>>
    /\ UNCHANGED scannerVars

NextBatch == ApplySecurityFixes \/ BatchSkip \/ BatchApply \/ BatchReturn

SpecBatch == InitBatch /\ [][NextBatch]_vars

----------------------------------------------------------------------------
(* Security policies (security_policies.py) and file configuration (config.py) *)

\* FILE_CONFIG['max_file_size']
max_file_size == 10 * 1024 * 1024

\* FILE_CONFIG['supported_extensions']
supported_extensions ==
    {".py", ".js", ".ts", ".jsx", ".tsx", ".java", ".c", ".cpp", ".cc", ".h",
     ".hpp", ".go", ".rs", ".rb", ".php", ".cs", ".swift", ".kt", ".scala",
     ".clj"}

\* FILE_CONFIG['excluded_dirs']
excluded_dirs ==
    {"node_modules", "venv", "__pycache__", ".git", "dist", "build", "target",
     ".next", ".nuxt", "vendor", "deps", "_build", "coverage"}

\* FILE_CONFIG['excluded_files']
excluded_files ==
    {"package-lock.json", "yarn.lock", "pnpm-lock.yaml", "Cargo.lock",
     "Gemfile.lock", "poetry.lock", "mix.lock", "go.sum"}

\* SCAN_CONFIG['timeout'], in seconds
ScanTimeout == 300

\* security_policies.get_cwe_mapping(issue_type)['cwe']
get_cwe_mapping(issue_type) ==
    CASE issue_type = "sql-injection" -> "CWE-89"
      [] issue_type = "nosql-injection" -> "CWE-943"
      [] issue_type = "command-injection" -> "CWE-78"
      [] issue_type = "ldap-injection" -> "CWE-90"
      [] issue_type = "xss" -> "CWE-79"
      [] issue_type = "path-traversal" -> "CWE-22"
      [] issue_type = "weak-crypto" -> "CWE-327"
      [] issue_type = "insecure-randomness" -> "CWE-330"
      [] issue_type = "tls-issues" -> "CWE-295"
      [] issue_type = "hardcoded-secret" -> "CWE-798"
      [] issue_type = "code-injection" -> "CWE-94"
      [] issue_type = "buffer-overflow" -> "CWE-120"
      [] issue_type = "memory-leak" -> "CWE-401"
      [] issue_type = "unsafe-code" -> "CWE-119"
      [] issue_type = "banned-api" -> "CWE-676"
      [] issue_type = "insecure-deserialization" -> "CWE-502"
      [] issue_type = "ssrf" -> "CWE-918"
      [] issue_type = "xxe" -> "CWE-611"
      [] issue_type = "race-condition" -> "CWE-362"
      [] issue_type = "privilege-escalation" -> "CWE-269"
      [] OTHER -> "Unknown"

\* security_policies.get_security_category
get_security_category(issue_type) ==
    CASE issue_type \in {"sql-injection", "nosql-injection", "command-injection",
                         "ldap-injection", "code-injection"} -> "Injection"
      [] issue_type = "xss" -> "Cross-Site Scripting"
      [] issue_type \in {"path-traversal", "privilege-escalation"}
             -> "Access Control"
      [] issue_type \in {"weak-crypto", "insecure-randomness", "tls-issues"}
             -> "Cryptography"
      [] issue_type = "hardcoded-secret" -> "Secrets Management"
      [] issue_type \in {"buffer-overflow", "memory-leak"} -> "Memory Safety"
      [] issue_type \in {"unsafe-code", "banned-api"} -> "Code Safety"
      [] issue_type = "insecure-deserialization" -> "Data Integrity"
      [] issue_type = "ssrf" -> "Network Security"
      [] issue_type = "xxe" -> "XML Security"
      [] issue_type = "race-condition" -> "Concurrency"
      [] OTHER -> "General Security"

\* a rule of SECURITY_PATTERNS. Of the regular expression the model keeps the
\* text it matches when no optional whitespace is present (lower case, the
\* search being case-insensitive) and whether it starts with \b
Rule(text, word_boundary, issue_type, severity) ==
    [text |-> text, word_boundary |-> word_boundary, issue |-> issue_type,
     severity |-> severity]

\* the rules of SECURITY_PATTERNS the model keeps, in the order of the source:
\* os\.system\s*\(, \beval\s*\( and \bexec\s*\( of 'python', \beval\s*\( and
\* innerHTML\s*= of 'javascript'
SECURITY_PATTERNS(language) ==
    CASE language = "python" ->
             << Rule(<<"o", "s", ".", "s", "y", "s", "t", "e", "m", "(">>, FALSE, "command-injection", "high"),
                Rule(<<"e", "v", "a", "l", "(">>, TRUE, "code-injection", "critical"),
                Rule(<<"e", "x", "e", "c", "(">>, TRUE, "code-injection", "critical") >>
      [] language = "javascript" ->
             << Rule(<<"e", "v", "a", "l", "(">>, TRUE, "code-injection", "critical"),
                Rule(<<"i", "n", "n", "e", "r", "h", "t", "m", "l", "=">>, FALSE, "xss", "high") >>
      [] OTHER -> <<>>

\* the languages SECURITY_PATTERNS has a list of rules for
PatternLanguages ==
    {"python", "javascript", "java", "typescript", "go", "rust", "php", "ruby",
     "c", "cpp"}

\* the issue kinds of all the rules SECURITY_PATTERNS lists for a language
issue_kinds(language) ==
    CASE language = "python" ->
             {"sql-injection", "command-injection", "code-injection",
              "path-traversal", "weak-crypto", "insecure-randomness",
              "hardcoded-secret", "insecure-deserialization", "ssrf", "xxe",
              "tls-issues"}
      [] language = "javascript" ->
             {"sql-injection", "command-injection", "code-injection", "xss",
              "path-traversal", "hardcoded-secret", "insecure-randomness",
              "ssrf", "unsafe-code"}
      [] language = "java" ->
             {"sql-injection", "command-injection", "code-injection",
              "path-traversal", "xss", "weak-crypto", "hardcoded-secret",
              "insecure-deserialization", "xxe", "tls-issues"}
      [] language = "go" ->
             {"sql-injection", "command-injection", "path-traversal",
              "hardcoded-secret", "tls-issues"}
      [] language = "rust" ->
             {"command-injection", "unsafe-code", "hardcoded-secret"}
      [] language = "php" ->
             {"sql-injection", "command-injection", "code-injection",
              "path-traversal", "xss", "hardcoded-secret"}
      [] language = "ruby" ->
             {"sql-injection", "command-injection", "code-injection",
              "path-traversal", "hardcoded-secret"}
      [] language = "c" ->
             {"buffer-overflow", "command-injection", "memory-leak",
              "unsafe-code"}
      [] language = "cpp" ->
             {"buffer-overflow", "command-injection", "unsafe-code"}
      [] OTHER -> {}

\* rules whose cross-site scripting rule carries an issue kind of its own
get_security_patterns_own_kind(language) ==
    LET rules == SECURITY_PATTERNS(IF language = "typescript"
                                   THEN "javascript" ELSE language)
    IN [r \in DOMAIN rules |->
            [rules[r] EXCEPT !.issue = IF @ = "xss" THEN "dom-xss" ELSE @]]

\* security_policies.get_security_patterns
get_security_patterns(language) ==
    SECURITY_PATTERNS(IF language = "typescript" THEN "javascript" ELSE language)

----------------------------------------------------------------------------
(* Matching the lines of a file: pattern_detector.scan_file *)

UpperCase == <<"A", "B", "C", "D", "E", "F", "G", "H", "I", "J", "K", "L", "M", "N", "O", "P", "Q", "R", "S", "T", "U", "V", "W", "X", "Y", "Z">>
LowerCase == <<"a", "b", "c", "d", "e", "f", "g", "h", "i", "j", "k", "l", "m", "n", "o", "p", "q", "r", "s", "t", "u", "v", "w", "x", "y", "z">>

\* the characters \w matches
WordChars ==
    { UpperCase[i] : i \in 1..Len(UpperCase) }
        \cup { LowerCase[i] : i \in 1..Len(LowerCase) }
        \cup {"0", "1", "2", "3", "4", "5", "6", "7", "8", "9", "_"}

\* the lower-case letter of every upper-case letter
LowerOf ==
    [c \in { UpperCase[i] : i \in 1..Len(UpperCase) } |->
         LowerCase[CHOOSE i \in 1..Len(UpperCase) : UpperCase[i] = c]]

\* str.lower on one character
lower_char(c) == IF c \in DOMAIN LowerOf THEN LowerOf[c] ELSE c

lower(s) == [i \in 1..Len(s) |-> lower_char(s[i])]

\* the rule matches the line at position i, lowered being the line in lower
\* case (re.IGNORECASE)
matches_at(rule, line, lowered, i) ==
    /\ OccursAt(lowered, rule.text, i)
    /\ rule.word_boundary => (i = 1 \/ line[i - 1] \notin WordChars)

\* the position of the leftmost match of the rule in the line, 0 without one
RECURSIVE match_from(_, _, _, _)
match_from(rule, line, lowered, i) ==
    IF i > Len(line) THEN 0
    ELSE IF matches_at(rule, line, lowered, i) THEN i
    ELSE match_from(rule, line, lowered, i + 1)

\* re.search(pattern, line, re.IGNORECASE): the position of the match
match_position(rule, line) == match_from(rule, line, lower(line), 1)

\* re.search(pattern, line, re.IGNORECASE) finds a match
re_search(rule, line) == match_position(rule, line) > 0

\* match.group(0): the matched text
group0(rule, line) ==
    SubSeq(line, match_position(rule, line),
           match_position(rule, line) + Len(rule.text) - 1)

\* str.startswith
startswith(s, prefix) ==
    Len(s) >= Len(prefix) /\ SubSeq(s, 1, Len(prefix)) = prefix

\* the test of scan_file's `continue`: the line is blank or a comment
skipped_line(stripped) ==
    \/ stripped = <<>>
    \/ startswith(stripped, <<"#">>)
    \/ startswith(stripped, <<"/", "/">>)

\* the default of get_context_lines' parameter context_size
context_size == 3

Digits == <<"0", "1", "2", "3", "4", "5", "6", "7", "8", "9">>

\* str(n) of a natural number: its decimal digits
RECURSIVE str(_)
str(n) ==
    IF n < 10 THEN <<Digits[n + 1]>>
    ELSE str(n \div 10) \o <<Digits[(n % 10) + 1]>>

\* the entry get_context_lines makes of line i + 1 (i counts from 0):
\* f'{prefix} {i + 1}: {lines[i]}'
context_entry(lines, line_num, i) ==
    (IF i = line_num - 1 THEN <<">", ">", ">">> ELSE <<" ", " ", " ">>)
        \o <<" ">> \o str(i + 1) \o <<":", " ">> \o lines[i + 1]

\* a window that starts at index line_num - context_size
get_context_lines_short_before(lines, line_num) ==
    LET start == IF line_num - context_size < 0 THEN 0
                 ELSE line_num - context_size
        end == IF Len(lines) < line_num + context_size THEN Len(lines)
               ELSE line_num + context_size
    IN [k \in 1..(end - start) |-> context_entry(lines, line_num, start + k - 1)]

\* pattern_detector.get_context_lines, for i in range(start, end)
get_context_lines(lines, line_num) ==
    LET start == IF line_num - context_size - 1 < 0 THEN 0
                 ELSE line_num - context_size - 1
        end == IF Len(lines) < line_num + context_size THEN Len(lines)
               ELSE line_num + context_size
    IN [k \in 1..(end - start) |-> context_entry(lines, line_num, start + k - 1)]

\* the dictionary scan_file appends for a rule that matches line line_num
ScanFinding(file_path, lines, line_num, line, rule, language) ==
    [file |-> file_path,
     line |-> line_num,
     issue |-> rule.issue,
     severity |-> rule.severity,
     code |-> strip(line),
     exact_match |-> group0(rule, line),
     cwe |-> get_cwe_mapping(rule.issue),
     category |-> get_security_category(rule.issue),
     context |-> get_context_lines(lines, line_num),
     language |-> language]

\* a rule loop that leaves a line at its first matching rule
line_findings_first_match(file_path, lines, line_num, line, rules, language) ==
    LET Hit(rule) == re_search(rule, line)
        hits == SelectSeq(rules, Hit)
    IN IF skipped_line(strip(line)) \/ hits = <<>> THEN <<>>
       ELSE << ScanFinding(file_path, lines, line_num, line, hits[1], language) >>

\* the body of scan_file's loop for one line: one finding for every rule that
\* matches, in the order of the rules
line_findings(file_path, lines, line_num, line, rules, language) ==
    LET Hit(rule) == re_search(rule, line)
        hits == SelectSeq(rules, Hit)
    IN IF skipped_line(strip(line)) THEN <<>>
       ELSE [k \in 1..Len(hits) |->
                 ScanFinding(file_path, lines, line_num, line, hits[k], language)]

\* the findings of lines n.. of a file
RECURSIVE findings_from(_, _, _, _, _)
findings_from(file_path, lines, n, rules, language) ==
    IF n > Len(lines) THEN <<>>
    ELSE line_findings(file_path, lines, n, lines[n], rules, language)
             \o findings_from(file_path, lines, n + 1, rules, language)

\* pattern_detector.scan_file
scan_file(file_path, lines, language) ==
    findings_from(file_path, lines, 1, get_security_patterns(language), language)

----------------------------------------------------------------------------
(* The classifier: pattern_detector.normalize_and_prioritize *)

\* findings handed to the classifier in one call (specification SpecClassify)
MaxPrioritized == 2

\* security_policies.get_severity_weight: SEVERITY_WEIGHTS.get(severity, 50)
get_severity_weight(severity) ==
    CASE severity = "critical" -> 100
      [] severity = "high" -> 80
      [] severity = "medium" -> 60
      [] severity = "low" -> 40
      [] severity = "info" -> 20
      [] OTHER -> 50

\* a boost that does not tell the two groups of CWEs apart
cwe_boost_flat(cwe) ==
    IF cwe \in {"CWE-94", "CWE-89", "CWE-78", "CWE-79", "CWE-22", "CWE-798"}
    THEN 20
    ELSE 0

\* the cwe_boost normalize_and_prioritize computes
cwe_boost(cwe) ==
    IF cwe \in {"CWE-94", "CWE-89", "CWE-78"} THEN 20
    ELSE IF cwe \in {"CWE-79", "CWE-22", "CWE-798"} THEN 10
    ELSE 0

\* thresholds that leave the boundary scores to the tier below
categorize_priority_exclusive(score) ==
    IF score > 90 THEN "critical"
    ELSE IF score > 70 THEN "high"
    ELSE IF score > 50 THEN "medium"
    ELSE "low"

\* pattern_detector.categorize_priority
categorize_priority(score) ==
    IF score >= 90 THEN "critical"
    ELSE IF score >= 70 THEN "high"
    ELSE IF score >= 50 THEN "medium"
    ELSE "low"

\* finding['priority_score'] = score; finding['priority'] = its tier
with_priority(finding, score) ==
    [priority_score |-> score, priority |-> categorize_priority(score)]
        @@ finding

\* the body of normalize_and_prioritize's loop for one finding
scored(finding) ==
    with_priority(finding,
                  get_severity_weight(finding.severity) + cwe_boost(finding.cwe))

\* an insertion that puts x before the elements of its own score
insert_before_equal(done, x) ==
    LET k == Cardinality({ i \in 1..Len(done) :
                               done[i].priority_score > x.priority_score })
    IN SubSeq(done, 1, k) \o <<x>> \o SubSeq(done, k + 1, Len(done))

\* x put into the list done, which is in non-increasing order of score, after
\* every element whose score is not smaller
insert_by_score(done, x) ==
    LET k == Cardinality({ i \in 1..Len(done) :
                               done[i].priority_score >= x.priority_score })
    IN SubSeq(done, 1, k) \o <<x>> \o SubSeq(done, k + 1, Len(done))

\* sorted(findings, key=lambda x: x['priority_score'], reverse=True): Python's
\* sort keeps elements of equal key in their order, also with reverse=True
RECURSIVE sorted_by_score(_)
sorted_by_score(list) ==
    IF list = <<>> THEN <<>>
    ELSE insert_by_score(sorted_by_score(SubSeq(list, 1, Len(list) - 1)),
                         list[Len(list)])

\* the severities a finding handed to the classifier carries: the five of
\* SEVERITY_WEIGHTS and one that is none of them
Severities == {"critical", "high", "medium", "low", "info", "unknown"}

\* the CWEs a finding handed to the classifier carries: the six boosted ones,
\* one without a boost, and the default of get_cwe_mapping
Cwes ==
    {"CWE-94", "CWE-89", "CWE-78", "CWE-79", "CWE-22", "CWE-798", "CWE-327",
     "Unknown"}

ClassifierInputs == [severity : Severities, cwe : Cwes]

\* no patcher is in use
PatcherUnused ==
    /\ fs = <<>>
    /\ applied_patches = <<>>
    /\ failed_patches = <<>>
    /\ findings = <<>>
    /\ fixes = <<>>
    /\ pos = 0
    /\ results = NoResults
    /\ summary = <<>>
    /\ pc = "idle"
    /\ calls = <<>>

\* pattern_detector.normalize_and_prioritize(findings): the findings get their
\* two fields in place, the sorted list is returned
NormalizeAndPrioritize ==
    /\ stage = "prioritize"
    /\ scan_findings' = [i \in DOMAIN scan_findings |-> scored(scan_findings[i])]
    /\ prioritized' = sorted_by_score(scan_findings')
    /\ stage' = "explain"
    /\ UNCHANGED <<temp_dir, languages, explained, scan_summary, exception,
                   scan_result>>
    /\ UNCHANGED <<patcherVars, scanInputs, walkVars>>

----------------------------------------------------------------------------
(* Specification SpecClassify: normalize_and_prioritize on a list of findings *)

InitClassify ==
    /\ PatcherUnused
    /\ stage = "prioritize"
    /\ request = [target |-> "none"]
    /\ repo_files = {}
    /\ scan_findings \in SeqsUpTo(ClassifierInputs, MaxPrioritized)
    /\ ScannerFresh

NextClassify == NormalizeAndPrioritize

SpecClassify == InitClassify /\ [][NextClassify]_vars

----------------------------------------------------------------------------
(* The repository and the walk of pattern_detector.scan *)

\* files of a repository (specification SpecScan)
MaxRepoFiles == 2
\* seconds the scan of one file takes when it is slow: more than the timeout
SlowScanSeconds == 301

\* a directory is the list of names leading to it from the root of the
\* repository; a file's relative path is its directory followed by its name
RepoRoot == <<>>

\* the subdirectories os.walk finds in a directory, in the order it lists
\* them: build/, build/src/, src/, src/build/ and src/lib/
listdir_dirs(root) ==
    CASE root = <<>> -> <<"build", "src">>
      [] root = <<"build">> -> <<"src">>
      [] root = <<"src">> -> <<"build", "lib">>
      [] OTHER -> <<>>

\* the directories that hold files
FileDirs ==
    { <<>>, <<"build">>, <<"build", "src">>, <<"src", "build">>,
      <<"src", "lib">> }

\* the file names, in the order os.walk lists the files of a directory
FileNames == <<"a.py", "b.ts", "c.txt">>

\* a file as the scan sees it: os.path.getsize answers size or raises OSError
\* (stat = "error"), open and read give lines or raise (readable = FALSE)
RepoFile(name, ext, stat, size, readable, lines) ==
    [name |-> name, ext |-> ext, stat |-> stat, size |-> size,
     readable |-> readable, lines |-> lines]

\* a regular file that can be read
SourceFile(name, ext, lines) ==
    RepoFile(name, ext, "ok", Len(join(<<NL>>, lines)), TRUE, lines)

\* one line on which two rules of the same issue kind match
PyTwoRules == << <<"e", "v", "a", "l", "(", "e", "x", "e", "c", "(", "x", ")", ")">> >>
\* a comment, a blank line, a line that starts with //, and an indented line
\* on which two rules of different issue kinds match, one of them in upper
\* case
PyMixed == << <<"#", "e", "v", "a", "l", "(", "x", ")">>, <<>>, <<"/", "/", "e", "x", "e", "c", "(", "x", ")">>,
              <<" ", " ", "o", "s", ".", "s", "y", "s", "t", "e", "m", "(", "E", "V", "A", "L", "(", "x", ")", ")">> >>
\* a line on which both javascript rules match, and a line that starts with #
\* (a private class field) on which one of them matches
TsTwoRules == << <<"e", "l", ".", "i", "n", "n", "e", "r", "H", "T", "M", "L", "=", "e", "v", "a", "l", "(", "x", ")">>,
                 <<"#", "x", "=", "e", "v", "a", "l", "(", "y", ")">> >>

\* the kinds of file a directory may hold
FileKinds ==
    {"py_two_rules", "py_mixed", "py_unreadable", "py_too_large",
     "py_stat_error", "ts_two_rules", "txt"}

\* the file of a kind
FileOfKind(kind) ==
    CASE kind = "py_two_rules" -> SourceFile("a.py", ".py", PyTwoRules)
      [] kind = "py_mixed" -> SourceFile("a.py", ".py", PyMixed)
      [] kind = "py_unreadable" ->
             RepoFile("a.py", ".py", "ok", 13, FALSE, PyTwoRules)
      [] kind = "py_too_large" ->
             RepoFile("a.py", ".py", "ok", max_file_size + 1, TRUE, PyTwoRules)
      [] kind = "py_stat_error" ->
             RepoFile("a.py", ".py", "error", 13, TRUE, PyTwoRules)
      [] kind = "ts_two_rules" -> SourceFile("b.ts", ".ts", TsTwoRules)
      [] kind = "txt" -> SourceFile("c.txt", ".txt", PyTwoRules)

\* a repository names each of its files by its directory and its kind
RepoFileInputs == [dir : FileDirs, kind : FileKinds]

\* the file a repository entry stands for
FileAt(entry) == [dir |-> entry.dir] @@ FileOfKind(entry.kind)

\* the sets of at most n elements of S
RECURSIVE SetsUpTo(_, _)
SetsUpTo(S, n) ==
    IF n = 0 THEN { {} }
    ELSE LET smaller == SetsUpTo(S, n - 1)
         IN smaller \cup { T \cup {x} : T \in smaller, x \in S }

\* the repositories: a directory holds at most one file of a name
Repositories ==
    { R \in SetsUpTo(RepoFileInputs, MaxRepoFiles) :
          \A f, g \in R :
              (f.dir = g.dir /\ FileOfKind(f.kind).name = FileOfKind(g.kind).name)
                  => f = g }

\* the files os.walk lists for a directory
listdir_files(files, root) ==
    LET Present(name) ==
            \E f \in files : f.dir = root /\ FileOfKind(f.kind).name = name
        names == SelectSeq(FileNames, Present)
    IN [k \in 1..Len(names) |->
            FileAt(CHOOSE f \in files :
                       f.dir = root /\ FileOfKind(f.kind).name = names[k])]

\* os.path.relpath(os.path.join(root, f), repo_path)
rel_path(file) == Append(file.dir, file.name)

\* a walk that descends into every directory
kept_dirs_all(dirs) == dirs

\* dirs[:] = [d for d in dirs if d not in excluded_dirs]
kept_dirs(dirs) ==
    LET Kept(d) == d \notin excluded_dirs
    IN SelectSeq(dirs, Kept)

\* the directories os.walk goes on to from root, after the pruning
walk_children(root, kept) == [k \in 1..Len(kept) |-> Append(root, kept[k])]

\* the stack of os.walk once the directory on top of it has been yielded
walk_descend(stack) ==
    walk_children(Head(stack), kept_dirs(listdir_dirs(Head(stack))))
        \o Tail(stack)

\* f.endswith(ext) for some ext of supported_extensions
is_source_file(file) == file.ext \in supported_extensions

\* the language of the if/elif chain of pattern_detector.scan the file is
\* scanned as, "none" when no branch is taken
scan_language(ext, langs) ==
    LET In(lang) == \E i \in 1..Len(langs) : langs[i] = lang
    IN IF ext = ".py" /\ In("python") THEN "python"
       ELSE IF ext = ".js" /\ In("javascript") THEN "javascript"
       ELSE IF ext = ".ts" /\ In("typescript") THEN "typescript"
       ELSE IF ext = ".jsx" /\ In("javascript") THEN "javascript"
       ELSE IF ext = ".tsx" /\ In("typescript") THEN "typescript"
       ELSE IF ext = ".java" /\ In("java") THEN "java"
       ELSE IF ext = ".php" /\ In("php") THEN "php"
       ELSE IF ext = ".rb" /\ In("ruby") THEN "ruby"
       ELSE IF ext = ".go" /\ In("go") THEN "go"
       ELSE IF ext = ".rs" /\ In("rust") THEN "rust"
       ELSE IF ext \in {".c", ".h"} /\ In("c") THEN "c"
       ELSE IF ext \in {".cpp", ".cc", ".cxx", ".hpp"} /\ In("cpp") THEN "cpp"
       ELSE "none"

\* what one iteration of the file loop of pattern_detector.scan does
Visit(outcome, found) == [outcome |-> outcome, findings |-> found]

\* the body of the try block of the file loop, the file having been read
scan_read_file(file, language) ==
    IF language = "none" THEN Visit("scanned", <<>>)
    ELSE Visit("scanned", scan_file(rel_path(file), file.lines, language))

\* one iteration of the file loop of pattern_detector.scan
scan_visit(file, langs) ==
    IF file.name \in excluded_files THEN Visit("excluded_file", <<>>)
    ELSE IF ~is_source_file(file) THEN Visit("not_source", <<>>)
    ELSE IF file.stat = "error" THEN Visit("stat_error", <<>>)
    ELSE IF file.size > max_file_size THEN Visit("too_large", <<>>)
    ELSE IF ~file.readable THEN Visit("read_error", <<>>)
    ELSE scan_read_file(file, scan_language(file.ext, langs))

\* the visit ended in an error of the file
visit_failed(visit) == visit.outcome \in {"stat_error", "read_error"}

\* what is left to walk after a visit
Remaining(queue, stack) == [queue |-> queue, stack |-> stack]

\* a walk that a failing file ends
walk_after_abort(visit, queue, stack) ==
    IF visit_failed(visit) THEN Remaining(<<>>, <<>>)
    ELSE Remaining(Tail(queue), stack)

\* the `continue` of the file loop: whatever the visit did, the walk goes on
\* with the next file
walk_after(visit, queue, stack) == Remaining(Tail(queue), stack)

\* the seconds a visit may take: reading and matching a file is done at once
\* or is slow; the clock of the model stops once it is past the timeout
visit_seconds(visit, now) ==
    IF visit.outcome = "scanned" /\ now <= ScanTimeout
    THEN {0, SlowScanSeconds}
    ELSE {0}

\* the record of a visit in the history of the walk: the path of the file,
\* what the visit did, the number of findings it added and the time it began
LogEntry(file, visit, at) ==
    [file |-> rel_path(file), outcome |-> visit.outcome,
     found |-> Len(visit.findings), at |-> at]

----------------------------------------------------------------------------
(* Language detection (language_detector.py) *)

\* EXTENSION_MAP.get(ext), "none" without an entry
EXTENSION_MAP(ext) ==
    CASE ext = ".py" -> "python"
      [] ext \in {".js", ".jsx"} -> "javascript"
      [] ext \in {".ts", ".tsx"} -> "typescript"
      [] ext = ".java" -> "java"
      [] ext \in {".c", ".h"} -> "c"
      [] ext \in {".cpp", ".cc", ".cxx", ".hpp"} -> "cpp"
      [] ext = ".cs" -> "csharp"
      [] ext = ".go" -> "go"
      [] ext = ".rs" -> "rust"
      [] ext = ".rb" -> "ruby"
      [] ext = ".php" -> "php"
      [] ext = ".swift" -> "swift"
      [] ext = ".kt" -> "kotlin"
      [] ext = ".scala" -> "scala"
      [] OTHER -> "none"

\* the language detect_per_file records for a file: by extension, otherwise
\* by content; no text of the model holds two markers of one language, so
\* detect_from_content answers '' and the file counts as 'unknown'
file_language(file) ==
    IF EXTENSION_MAP(file.ext) # "none" THEN EXTENSION_MAP(file.ext)
    ELSE "unknown"

\* the directories os.walk yields from the stack on, in order
RECURSIVE os_walk(_)
os_walk(stack) ==
    IF stack = <<>> THEN <<>>
    ELSE <<Head(stack)>> \o os_walk(walk_descend(stack))

\* the concatenation of a list of lists
RECURSIVE concat(_)
concat(lists) ==
    IF lists = <<>> THEN <<>> ELSE Head(lists) \o concat(Tail(lists))

\* the files the walk of a repository comes by, in order
walked_files(files) ==
    LET walked == os_walk(<<RepoRoot>>)
    IN concat([k \in 1..Len(walked) |-> listdir_files(files, walked[k])])

\* language_detector.detect_per_file, as the list of its values
detect_per_file(files) ==
    LET walked == walked_files(files)
    IN [k \in 1..Len(walked) |-> file_language(walked[k])]

\* the elements of a list without repetitions and without 'unknown', in the
\* order of their first occurrence
RECURSIVE ordered_unique(_)
ordered_unique(list) ==
    IF list = <<>> THEN <<>>
    ELSE LET front == ordered_unique(SubSeq(list, 1, Len(list) - 1))
             last == list[Len(list)]
         IN IF last = "unknown" \/ \E i \in 1..Len(front) : front[i] = last
            THEN front
            ELSE Append(front, last)

\* language_detector.get_languages_in_repo
get_languages_in_repo(files) == ordered_unique(detect_per_file(files))

\* language_detector.get_file_count_by_language
get_file_count_by_language(files) ==
    LET langs == detect_per_file(files)
    IN [lang \in { langs[i] : i \in 1..Len(langs) } \ {"unknown"} |->
            Cardinality({ i \in 1..Len(langs) : langs[i] = lang })]

----------------------------------------------------------------------------
(* The stages after the walk: explain_and_suggest and _build_summary *)

\* security_policies.get_cwe_description: the text the table has for the CWE,
\* or the default text made of the CWE
get_cwe_description(cwe) ==
    IF cwe \in {"CWE-89", "CWE-78", "CWE-79", "CWE-22", "CWE-94", "CWE-327",
                "CWE-330", "CWE-295", "CWE-798", "CWE-120", "CWE-401",
                "CWE-119", "CWE-502", "CWE-918", "CWE-611", "CWE-362",
                "CWE-269", "CWE-90", "CWE-943", "CWE-676"}
    THEN <<"description", cwe>>
    ELSE <<cwe, " - Security vulnerability">>

\* pattern_detector.get_remediation_suggestion: the text the table has for
\* the issue kind, or the default text made of the issue kind
get_remediation_suggestion(issue_type, language) ==
    IF issue_type \in {"sql-injection", "command-injection", "code-injection",
                       "xss", "path-traversal", "weak-crypto",
                       "insecure-randomness", "hardcoded-secret", "tls-issues",
                       "buffer-overflow", "memory-leak",
                       "insecure-deserialization", "ssrf", "xxe"}
    THEN <<"suggestion", issue_type>>
    ELSE <<"Review and fix the ", issue_type, " vulnerability">>

\* the characters of the 'cwe' values of CWE_MAPPINGS and of the value
\* get_cwe_mapping answers for an issue kind without an entry
cwe_text(cwe) ==
    CASE cwe = "CWE-89" -> <<"C", "W", "E", "-", "8", "9">>
      [] cwe = "CWE-943" -> <<"C", "W", "E", "-", "9", "4", "3">>
      [] cwe = "CWE-78" -> <<"C", "W", "E", "-", "7", "8">>
      [] cwe = "CWE-90" -> <<"C", "W", "E", "-", "9", "0">>
      [] cwe = "CWE-79" -> <<"C", "W", "E", "-", "7", "9">>
      [] cwe = "CWE-22" -> <<"C", "W", "E", "-", "2", "2">>
      [] cwe = "CWE-327" -> <<"C", "W", "E", "-", "3", "2", "7">>
      [] cwe = "CWE-330" -> <<"C", "W", "E", "-", "3", "3", "0">>
      [] cwe = "CWE-295" -> <<"C", "W", "E", "-", "2", "9", "5">>
      [] cwe = "CWE-798" -> <<"C", "W", "E", "-", "7", "9", "8">>
      [] cwe = "CWE-94" -> <<"C", "W", "E", "-", "9", "4">>
      [] cwe = "CWE-120" -> <<"C", "W", "E", "-", "1", "2", "0">>
      [] cwe = "CWE-401" -> <<"C", "W", "E", "-", "4", "0", "1">>
      [] cwe = "CWE-119" -> <<"C", "W", "E", "-", "1", "1", "9">>
      [] cwe = "CWE-676" -> <<"C", "W", "E", "-", "6", "7", "6">>
      [] cwe = "CWE-502" -> <<"C", "W", "E", "-", "5", "0", "2">>
      [] cwe = "CWE-918" -> <<"C", "W", "E", "-", "9", "1", "8">>
      [] cwe = "CWE-611" -> <<"C", "W", "E", "-", "6", "1", "1">>
      [] cwe = "CWE-362" -> <<"C", "W", "E", "-", "3", "6", "2">>
      [] cwe = "CWE-269" -> <<"C", "W", "E", "-", "2", "6", "9">>
      [] cwe = "Unknown" -> <<"U", "n", "k", "n", "o", "w", "n">>

\* s.split(ch) for a separator of one character
RECURSIVE split_at(_, _)
split_at(s, ch) ==
    IF \A i \in 1..Len(s) : s[i] # ch THEN <<s>>
    ELSE LET i == CHOOSE k \in 1..Len(s) :
                      s[k] = ch /\ \A j \in 1..(k - 1) : s[j] # ch
         IN <<SubSeq(s, 1, i - 1)>> \o split_at(Drop(s, i + 1), ch)

\* cwe.split("-")[1] exists: the split has a second part
has_cwe_number(cwe) == Len(split_at(cwe_text(cwe), "-")) >= 2

\* pattern_detector.get_references
get_references(cwe) ==
    << <<"https://cwe.mitre.org/data/definitions/">>
           \o split_at(cwe_text(cwe), "-")[2] \o <<".html">>,
       <<"https://owasp.org/www-community/vulnerabilities/">> >>

\* the dictionary explain_and_suggest builds for one finding
explanation_of(finding) ==
    [explanation |-> get_cwe_description(finding.cwe),
     remediation |-> get_remediation_suggestion(finding.issue, finding.language),
     references |-> get_references(finding.cwe)] @@ finding

\* an explainer that explains a location once: of the findings of one file and
\* line it keeps the first
explain_and_suggest_once_per_line(list) ==
    LET First(i) == \A j \in 1..(i - 1) :
                        list[j].file # list[i].file \/ list[j].line # list[i].line
        RECURSIVE Keep(_)
        Keep(i) == IF i > Len(list) THEN <<>>
                   ELSE (IF First(i) THEN <<explanation_of(list[i])>> ELSE <<>>)
                            \o Keep(i + 1)
    IN Keep(1)

\* pattern_detector.explain_and_suggest
explain_and_suggest(list) == [i \in DOMAIN list |-> explanation_of(list[i])]

\* how many findings of the list have the severity
severity_count(list, severity) ==
    Cardinality({ i \in 1..Len(list) : list[i].severity = severity })

\* the counts by severity and by category of _build_summary
counts_by(list, field) ==
    [v \in { list[i][field] : i \in 1..Len(list) } |->
         Cardinality({ i \in 1..Len(list) : list[i][field] = v })]

\* a risk level that is high from three findings of high severity on
risk_of_from_three(critical, high) ==
    IF critical > 0 THEN [risk_level |-> "critical", status |-> "critical"]
    ELSE IF high >= 3 THEN [risk_level |-> "high", status |-> "needs-attention"]
    ELSE IF high > 0
    THEN [risk_level |-> "medium", status |-> "review-recommended"]
    ELSE [risk_level |-> "low", status |-> "acceptable"]

\* risk_level and status as _build_summary chooses them
risk_of(critical, high) ==
    IF critical > 0 THEN [risk_level |-> "critical", status |-> "critical"]
    ELSE IF high > 3 THEN [risk_level |-> "high", status |-> "needs-attention"]
    ELSE IF high > 0
    THEN [risk_level |-> "medium", status |-> "review-recommended"]
    ELSE [risk_level |-> "low", status |-> "acceptable"]

\* SecurityScanner._generate_summary_message: which sentence, with its numbers
generate_summary_message(total, critical, high) ==
    IF critical > 0
    THEN [sentence |-> "critical", total |-> total, count |-> critical]
    ELSE IF high > 0
    THEN [sentence |-> "high", total |-> total, count |-> high]
    ELSE [sentence |-> "medium_or_low", total |-> total, count |-> 0]

\* an entry of top_issues
top_issue(f) ==
    [file |-> f.file, line |-> f.line, issue |-> f.issue,
     severity |-> f.severity, cwe |-> f.cwe]

\* SecurityScanner._build_summary
build_summary(list) ==
    IF list = <<>>
    THEN [status |-> "clean", risk_level |-> "low", top_issues |-> <<>>,
          message |-> [sentence |-> "none", total |-> 0, count |-> 0]]
    ELSE risk_of(severity_count(list, "critical"), severity_count(list, "high"))
         @@ [severity_counts |-> counts_by(list, "severity"),
             category_counts |-> counts_by(list, "category"),
             top_issues |-> [i \in 1..(IF Len(list) < 5 THEN Len(list) ELSE 5)
                                 |-> top_issue(list[i])],
             message |-> generate_summary_message(
                             Len(list), severity_count(list, "critical"),
                             severity_count(list, "high"))]

----------------------------------------------------------------------------
(* SecurityScanner.scan *)

\* an exception raised inside the try block of scan
Exception(type, text) == [type |-> type, text |-> text]

\* how a call of scan ends: a value is returned or an exception leaves it
Returned(value) == [kind |-> "returned", value |-> value]
Raised(exc) == [kind |-> "raised", value |-> exc]

\* the dictionary scan returns when every stage has run
success_result(target, files, langs, list, summ, seconds) ==
    [success |-> TRUE,
     repo |-> target,
     duration_seconds |-> seconds,
     languages |-> langs,
     language_counts |-> get_file_count_by_language(files),
     findings |-> list,
     fixes |-> <<>>,
     summary |-> summ,
     stats |-> [total_findings |-> Len(list),
                critical |-> severity_count(list, "critical"),
                high |-> severity_count(list, "high"),
                medium |-> severity_count(list, "medium"),
                low |-> severity_count(list, "low"),
                files_scanned |-> Len(detect_per_file(files))]]

\* a handler that is written for the errors of _resolve_repo_path only
scan_except_value_error(exc, target) ==
    IF exc.type = "ValueError"
    THEN Returned([success |-> FALSE, error |-> exc.text, repo |-> target])
    ELSE Raised(exc)

\* the `except Exception` clause of scan
scan_except(exc, target) ==
    Returned([success |-> FALSE, error |-> exc.text, repo |-> target])

\* the `finally` clause of scan: the clone, if there is one, is removed
scan_finally(temp) == IF temp = "cloned" THEN "removed" ELSE temp

\* the stages at whose start scan calls progress_callback
CallbackStages ==
    {"init", "detect_langs", "scan", "prioritize", "explain", "summary",
     "complete"}

\* what a caller asks scan to scan: a local directory, a Git URL, or a string
\* that is neither
Targets == {"dir", "url", "invalid"}

\* an exception is raised inside the try block
Raise(exc) ==
    /\ exception' = <<exc>>
    /\ stage' = "except"

\* step 1 of scan: _resolve_repo_path
ResolveRepoPath ==
    /\ stage = "init"
    /\ \/ /\ request.target = "dir"
          /\ stage' = "detect_langs"
          /\ UNCHANGED <<temp_dir, exception>>
       \/ /\ request.target = "url"
          /\ temp_dir' = "cloned"
          /\ stage' = "detect_langs"
          /\ UNCHANGED exception
       \/ /\ request.target = "url"
          /\ temp_dir' = "removed"
          /\ Raise(Exception("ValueError", "Failed to clone repository"))
       \/ /\ request.target = "invalid"
          /\ Raise(Exception("ValueError", "Invalid repository path or URL"))
          /\ UNCHANGED temp_dir
    /\ UNCHANGED <<languages, scan_findings, prioritized, explained,
                   scan_summary, scan_result>>
    /\ UNCHANGED <<patcherVars, scanInputs, walkVars>>

\* step 2 of scan: language_detector.get_languages_in_repo
DetectLanguages ==
    /\ stage = "detect_langs"
    /\ languages' = get_languages_in_repo(repo_files)
    /\ stage' = "scan"
    /\ UNCHANGED <<temp_dir, scan_findings, prioritized, explained,
                   scan_summary, exception, scan_result>>
    /\ UNCHANGED <<patcherVars, scanInputs, walkVars>>

\* step 3 of scan: pattern_detector.scan is entered and os.walk starts
PatternScanStart ==
    /\ stage = "scan"
    /\ scan_findings' = <<>>
    /\ walk_stack' = <<RepoRoot>>
    /\ walk_queue' = <<>>
    /\ stage' = "walk"
    /\ UNCHANGED <<elapsed, scan_log>>
    /\ UNCHANGED <<temp_dir, languages, prioritized, explained, scan_summary,
                   exception, scan_result>>
    /\ UNCHANGED <<patcherVars, scanInputs>>

\* os.walk yields the next directory: its subdirectories are pruned and its
\* files are about to be visited
WalkDir ==
    /\ stage = "walk"
    /\ walk_queue = <<>>
    /\ walk_stack # <<>>
    /\ walk_queue' = listdir_files(repo_files, Head(walk_stack))
    /\ walk_stack' = walk_descend(walk_stack)
    /\ UNCHANGED <<stage, elapsed, scan_log>>
    /\ UNCHANGED <<patcherVars, scanInputs, stageVars>>

\* the effect of one iteration of the file loop that does visit, in the
\* seconds the visit may take
ScanFileEffect(file, visit) ==
    \E seconds \in visit_seconds(visit, elapsed) :
        /\ scan_findings' = scan_findings \o visit.findings
        /\ scan_log' = Append(scan_log, LogEntry(file, visit, elapsed))
        /\ elapsed' = elapsed + seconds
        /\ walk_queue' = walk_after(visit, walk_queue, walk_stack).queue
        /\ walk_stack' = walk_after(visit, walk_queue, walk_stack).stack

\* one iteration of the file loop of pattern_detector.scan
ScanFile ==
    /\ stage = "walk"
    /\ walk_queue # <<>>
    /\ ScanFileEffect(Head(walk_queue), scan_visit(Head(walk_queue), languages))
    /\ UNCHANGED <<temp_dir, languages, prioritized, explained, scan_summary,
                   exception, scan_result>>
    /\ UNCHANGED <<stage, patcherVars, scanInputs>>

\* os.walk is exhausted and pattern_detector.scan returns its findings
PatternScanReturn ==
    /\ stage = "walk"
    /\ walk_queue = <<>>
    /\ walk_stack = <<>>
    /\ stage' = "prioritize"
    /\ UNCHANGED <<patcherVars, scanInputs, walkVars, stageVars>>

\* step 5 of scan: pattern_detector.explain_and_suggest, in which
\* get_references raises for a CWE without a number
ExplainAndSuggest ==
    /\ stage = "explain"
    /\ IF \A i \in 1..Len(prioritized) : has_cwe_number(prioritized[i].cwe)
       THEN /\ explained' = explain_and_suggest(prioritized)
            /\ stage' = "summary"
            /\ UNCHANGED exception
       ELSE /\ Raise(Exception("IndexError", "list index out of range"))
            /\ UNCHANGED explained
    /\ UNCHANGED <<temp_dir, languages, scan_findings, prioritized,
                   scan_summary, scan_result>>
    /\ UNCHANGED <<patcherVars, scanInputs, walkVars>>

\* step 7 of scan: _build_summary (step 6 is skipped: the scanner was built
\* without an API key, so it has no AI fixer)
BuildSummary ==
    /\ stage = "summary"
    /\ scan_summary' = <<build_summary(explained)>>
    /\ stage' = "complete"
    /\ UNCHANGED <<temp_dir, languages, scan_findings, prioritized, explained,
                   exception, scan_result>>
    /\ UNCHANGED <<patcherVars, scanInputs, walkVars>>

\* scan builds its result and returns it, through the finally clause
ScanReturn ==
    /\ stage = "complete"
    /\ scan_result' =
           Append(scan_result,
                  Returned(success_result(request.target, repo_files, languages,
                                          explained, scan_summary[1], elapsed)))
    /\ temp_dir' = scan_finally(temp_dir)
    /\ stage' = "done"
    /\ UNCHANGED <<languages, scan_findings, prioritized, explained,
                   scan_summary, exception>>
    /\ UNCHANGED <<patcherVars, scanInputs, walkVars>>

\* the caller's progress callback raises at the start of a stage
CallbackRaises ==
    /\ stage \in CallbackStages
    /\ Raise(Exception("Exception", stage))
    /\ UNCHANGED <<temp_dir, languages, scan_findings, prioritized, explained,
                   scan_summary, scan_result>>
    /\ UNCHANGED <<patcherVars, scanInputs, walkVars>>

\* the except clause of scan, then its finally clause
ScanExcept ==
    /\ stage = "except"
    /\ scan_result' = Append(scan_result,
                             scan_except(exception[1], request.target))
    /\ temp_dir' = scan_finally(temp_dir)
    /\ stage' = "done"
    /\ UNCHANGED <<languages, scan_findings, prioritized, explained,
                   scan_summary, exception>>
    /\ UNCHANGED <<patcherVars, scanInputs, walkVars>>

----------------------------------------------------------------------------
(* Specification SpecScan: SecurityScanner.scan(repo_path_or_url) *)

InitScan ==
    /\ PatcherUnused
    /\ stage = "init"
    /\ request \in [target : Targets]
    /\ repo_files \in Repositories
    /\ request.target = "invalid" => repo_files = {}
    /\ scan_findings = <<>>
    /\ ScannerFresh

NextScan ==
    \/ ResolveRepoPath
    \/ DetectLanguages
    \/ PatternScanStart
    \/ WalkDir
    \/ ScanFile
    \/ PatternScanReturn
    \/ NormalizeAndPrioritize
    \/ ExplainAndSuggest
    \/ BuildSummary
    \/ ScanReturn
    \/ CallbackRaises
    \/ ScanExcept

SpecScan == InitScan /\ [][NextScan]_vars

----------------------------------------------------------------------------
(* Specification SpecScanFile: scan_file(file_path, lines, language) *)

\* the longest list of lines scan_file is called with
MaxLines == 10

\* the lines of a file: one that a rule matches and a blank one
ScanFileLines == { <<"e", "v", "a", "l", "(", "x", ")">>, <<>> }

\* the arguments of a call of scan_file
ScanFileRequests ==
    [file_path : {<<"a.py">>},
     lines : SeqsUpTo(ScanFileLines, MaxLines),
     language : {"python"}]

\* pattern_detector.scan_file(file_path, lines, language)
ScanFileCall ==
    /\ stage = "scan_file"
    /\ scan_findings' = scan_file(request.file_path, request.lines,
                                  request.language)
    /\ stage' = "scanned"
    /\ UNCHANGED <<temp_dir, languages, prioritized, explained, scan_summary,
                   exception, scan_result>>
    /\ UNCHANGED <<patcherVars, scanInputs, walkVars>>

InitScanFile ==
    /\ PatcherUnused
    /\ stage = "scan_file"
    /\ request \in ScanFileRequests
    /\ repo_files = {}
    /\ scan_findings = <<>>
    /\ ScannerFresh

NextScanFile == ScanFileCall

SpecScanFile == InitScanFile /\ [][NextScanFile]_vars

----------------------------------------------------------------------------
(* Specification SpecSummary: _build_summary(findings) and the return of scan *)

\* the longest list of findings _build_summary is called with
MaxSummarized == 6

\* the findings a summary is built of: what the rules of four issue kinds
\* find, each with the severity, the CWE and the category of its kind
SummaryFinding(issue_type, severity) ==
    [file |-> <<"a.py">>, line |-> 1, issue |-> issue_type,
     severity |-> severity, cwe |-> get_cwe_mapping(issue_type),
     category |-> get_security_category(issue_type)]

SummaryInputs ==
    { SummaryFinding("code-injection", "critical"),
      SummaryFinding("command-injection", "high"),
      SummaryFinding("xss", "high"),
      SummaryFinding("weak-crypto", "medium") }

InitSummary ==
    /\ PatcherUnused
    /\ stage = "summary"
    /\ request = [target |-> "dir"]
    /\ repo_files = {}
    /\ scan_findings = <<>>
    /\ explained \in SeqsUpTo(SummaryInputs, MaxSummarized)
    /\ temp_dir = "none"
    /\ languages = <<>>
    /\ walk_stack = <<>>
    /\ walk_queue = <<>>
    /\ elapsed = 0
    /\ scan_log = <<>>
    /\ prioritized = <<>>
    /\ scan_summary = <<>>
    /\ exception = <<>>
    /\ scan_result = <<>>

NextSummary == BuildSummary \/ ScanReturn

SpecSummary == InitSummary /\ [][NextSummary]_vars

----------------------------------------------------------------------------
(* Reading the history of apply_fix calls *)

CallIds == 1..Len(calls)

\* the call was made on a regular file
OnRegularFile(c) == c.finding.file \in DOMAIN c.pre

\* the call got as far as the strategies: the file was read and the
\* replacement is not blank
ReachedStrategies(c) ==
    OnRegularFile(c) /\ strip(c.fix.solution_code) # <<>>

PreContent(c) == c.pre[c.finding.file]
PostContent(c) == c.post[c.finding.file]
PreLines(c) == split_lines(PreContent(c))
PostLines(c) == split_lines(PostContent(c))

\* the finding's line number is 0 or past the end of the file
OutOfRange(c) == c.finding.line = 0 \/ c.finding.line > Len(PreLines(c))

\* the results of the calls made so far that satisfy Test, in call order
ResultsWhere(Test(_)) ==
    SelectSeq([i \in CallIds |-> calls[i].result], Test)

IsSuccess(r) == r.success
IsFailure(r) == ~r.success

----------------------------------------------------------------------------
(* Claims about apply_batch and apply_security_fixes (SpecBatch) *)

\* C1: whenever two fixes of a batch target the same file, the fix for the
\* higher line number is applied before the fix for the lower one, whatever
\* the order of the entries of the fixes mapping.
C1_DescendingLineOrder ==
    \A i, j \in CallIds :
        (i < j /\ calls[i].finding.file = calls[j].finding.file)
            => calls[i].finding.line >= calls[j].finding.line

\* C4: apply_batch drops no entry of the fixes mapping: when it returns,
\* success_count + failure_count = total and the applied and failed lists
\* hold one result per entry, also when an index has no finding.
C4_NoAttemptDropped ==
    pc = "done" =>
        /\ results.success_count + results.failure_count = results.total
        /\ Len(results.applied) + Len(results.failed) = Len(fixes)

\* C5: a failed fix never stops the batch: apply_batch returns only after it
\* has called apply_fix for every entry whose index has a finding, those after
\* a failed fix included; the result of each call is in exactly one of
\* results.applied and results.failed (the successful ones in applied, the
\* failed ones in failed, in call order), and success_count and failure_count
\* are the lengths of the two lists.
C5_FailureNeverStopsBatch ==
    /\ results.applied = ResultsWhere(IsSuccess)
    /\ results.failed = ResultsWhere(IsFailure)
    /\ results.success_count = Len(results.applied)
    /\ results.failure_count = Len(results.failed)
    /\ pc = "done" =>
           \A p \in 1..Len(fixes) :
               fixes[p].idx < Len(findings)
                   => Cardinality({ i \in CallIds : calls[i].entry = p }) = 1

\* a batch has returned in which a fix failed and a later fix was applied
C5_Witness ==
    /\ pc = "done"
    /\ \E i, j \in CallIds :
           i < j /\ ~calls[i].result.success /\ calls[j].result.success

\* C6: every failed result apply_fix returns is in failed_patches, so after
\* apply_security_fixes summary.total_applied = success_count and
\* summary.total_failed = failure_count.
C6_SummaryAgreesWithBatch ==
    pc = "done" =>
        /\ summary[1].total_applied = results.success_count
        /\ summary[1].total_failed = results.failure_count
        /\ \A i \in CallIds :
               ~calls[i].result.success
                   => \E k \in 1..Len(failed_patches) :
                          failed_patches[k] = calls[i].result

----------------------------------------------------------------------------
(* Claims about apply_fix and its strategies (Spec) *)

\* s without its whitespace characters
RECURSIVE without_whitespace(_)
without_whitespace(s) ==
    IF s = <<>> THEN <<>>
    ELSE IF Head(s) \in Whitespace THEN without_whitespace(Tail(s))
    ELSE <<Head(s)>> \o without_whitespace(Tail(s))

\* the leading whitespace of a line
leading_whitespace(line) == SubSeq(line, 1, Len(line) - Len(lstrip(line)))

\* the block or the fuzzy strategy finds a target for the call's code text
HasFallbackTarget(c) ==
    \/ contains(PreContent(c), strip(c.finding.code))
    \/ \E k \in 1..Len(PreLines(c)) :
           fuzzy_hit(normalize(strip(c.finding.code)), normalize(PreLines(c)[k]))

C3_LedgerCountsCalls ==
    Len(applied_patches) + Len(failed_patches) = Len(calls)

\* C7: when no strategy can locate a target (the line strategy does not apply
\* or fails, the code text does not occur verbatim in the file, and no line
\* with text on it contains the code text or is contained in it after
\* whitespace normalisation), apply_fix fails and leaves the file unchanged; a
\* blank line is never taken as the target.
C7_NoTargetFails ==
    \A i \in CallIds :
        (/\ ReachedStrategies(calls[i])
         /\ \/ ~single_line_fix(strip(calls[i].fix.solution_code),
                                calls[i].finding.line)
            \/ OutOfRange(calls[i])
         /\ ~contains(PreContent(calls[i]), strip(calls[i].finding.code))
         /\ \A k \in 1..Len(PreLines(calls[i])) :
                without_whitespace(PreLines(calls[i])[k]) # <<>>
                    => ~fuzzy_hit(normalize(strip(calls[i].finding.code)),
                                  normalize(PreLines(calls[i])[k])))
            => /\ ~calls[i].result.success
               /\ calls[i].post = calls[i].pre

\* line k of the call's file differs from the finding's code text in
\* whitespace only
DiffersInWhitespaceOnly(c, k) ==
    /\ without_whitespace(PreLines(c)[k]) = without_whitespace(c.finding.code)
    /\ without_whitespace(c.finding.code) # <<>>

\* C8: when the line strategy does not apply and a line of the file differs
\* from the finding's code text only in whitespace (the code text not being
\* in the file verbatim), the fuzzy strategy takes such a line as its target
\* and rewrites that line only, every other line staying unchanged.
C8_FuzzyWhitespaceInsensitive ==
    \A i \in CallIds :
        (/\ ReachedStrategies(calls[i])
         /\ ~single_line_fix(strip(calls[i].fix.solution_code),
                             calls[i].finding.line)
         /\ ~contains(PreContent(calls[i]), strip(calls[i].finding.code))
         /\ \E k \in 1..Len(PreLines(calls[i])) :
                DiffersInWhitespaceOnly(calls[i], k))
            => /\ calls[i].result.success
               /\ calls[i].result.strategy = "fuzzy_replacement"
               /\ calls[i].result.line \in 1..Len(PreLines(calls[i]))
               /\ DiffersInWhitespaceOnly(calls[i], calls[i].result.line)
               /\ \A k \in 1..(calls[i].result.line - 1) :
                      PostLines(calls[i])[k] = PreLines(calls[i])[k]
               /\ \A k \in 1..(Len(PreLines(calls[i])) - calls[i].result.line) :
                      PostLines(calls[i])[Len(PostLines(calls[i])) + 1 - k]
                          = PreLines(calls[i])[Len(PreLines(calls[i])) + 1 - k]

\* the positions at which the call's code text occurs in the file before it
Occurrences(c) ==
    { p \in 1..Len(PreContent(c)) :
          OccursAt(PreContent(c), strip(c.finding.code), p) }

\* C9: a block-strategy patch replaces the first verbatim occurrence of the
\* finding's code text with the replacement and leaves the text before it and
\* everything after it, later occurrences included, unchanged.
C9_BlockReplacesFirstOccurrence ==
    \A i \in CallIds :
        calls[i].result.strategy = "block_replacement"
            => \E p \in Occurrences(calls[i]) :
                   /\ \A q \in Occurrences(calls[i]) : p <= q
                   /\ SubSeq(PostContent(calls[i]), 1, p - 1)
                          = SubSeq(PreContent(calls[i]), 1, p - 1)
                   /\ SubSeq(PostContent(calls[i]), p,
                             p + Len(strip(calls[i].fix.solution_code)) - 1)
                          = strip(calls[i].fix.solution_code)
                   /\ Drop(PostContent(calls[i]),
                           p + Len(strip(calls[i].fix.solution_code)))
                          = Drop(PreContent(calls[i]),
                                 p + Len(strip(calls[i].finding.code)))

\* a block-strategy patch was applied to a file that held the code text twice
C9_Witness ==
    \E i \in CallIds :
        /\ calls[i].result.strategy = "block_replacement"
        /\ Cardinality(Occurrences(calls[i])) >= 2
        /\ contains(PostContent(calls[i]), strip(calls[i].finding.code))

\* C10: the line the line strategy writes is exactly the original line's
\* leading whitespace followed by the replacement without its own leading
\* whitespace, and applying the same line patch a second time leaves the file
\* unchanged.
C10_LinePreservesIndentation ==
    \A i \in CallIds :
        calls[i].result.strategy = "line_replacement"
            => /\ PostLines(calls[i])[calls[i].finding.line]
                      = leading_whitespace(PreLines(calls[i])[calls[i].finding.line])
                            \o lstrip(strip(calls[i].fix.solution_code))
               /\ (/\ i > 1
                   /\ calls[i - 1].result.strategy = "line_replacement"
                   /\ calls[i - 1].finding = calls[i].finding
                   /\ calls[i - 1].fix = calls[i].fix)
                      => calls[i].post = calls[i].pre

\* the finding's replacement is absent or blank
BlankReplacement(c) == strip(c.fix.solution_code) = <<>>

\* C11: when the replacement is absent or empty after trimming, apply_fix on
\* a file it has read fails with 'no solution code provided' without trying
\* any of the three strategies, and every file is left as it was.
C11_BlankReplacementFails ==
    \A i \in CallIds :
        (OnRegularFile(calls[i]) /\ BlankReplacement(calls[i]))
            => /\ ~calls[i].result.success
               /\ calls[i].result.error = "no_solution_code"
               /\ calls[i].result.strategy = "none"
               /\ calls[i].tried = <<>>
               /\ calls[i].post = calls[i].pre

\* a blank replacement was refused for a finding whose line is in the file and
\* whose code text is in the file, so that every strategy had a target
C11_Witness ==
    \E i \in CallIds :
        /\ OnRegularFile(calls[i])
        /\ BlankReplacement(calls[i])
        /\ ~OutOfRange(calls[i])
        /\ contains(PreContent(calls[i]), strip(calls[i].finding.code))
        /\ calls[i].result.error = "no_solution_code"

\* every call after call i returned a failure
OnlyFailuresAfter(i) ==
    \A j \in CallIds : j > i => ~calls[j].result.success

----------------------------------------------------------------------------
(* Claims about the classifier (SpecClassify) *)

\* the stages of a scan at which normalize_and_prioritize has returned
AfterPrioritize == {"explain"}

\* the elements of list whose priority score is sc, in the order of the list
WithScore(list, sc) ==
    LET Test(f) == f.priority_score = sc
    IN SelectSeq(list, Test)

\* how many times x occurs in list
CountIn(list, x) == Cardinality({ i \in 1..Len(list) : list[i] = x })

\* C13: normalize_and_prioritize returns a permutation of its input in which
\* priority_score never increases from one element to the next and in which
\* findings of equal score keep the order they had in the input.
C13_StableDescendingPermutation ==
    stage \in AfterPrioritize =>
        /\ Len(prioritized) = Len(scan_findings)
        /\ \A i \in 1..Len(scan_findings) :
               CountIn(prioritized, scan_findings[i])
                   = CountIn(scan_findings, scan_findings[i])
        /\ \A i \in 1..(Len(prioritized) - 1) :
               prioritized[i].priority_score >= prioritized[i + 1].priority_score
        /\ \A i \in 1..Len(scan_findings) :
               WithScore(prioritized, scan_findings[i].priority_score)
                   = WithScore(scan_findings, scan_findings[i].priority_score)

\* two different findings of equal score were classified and came out in
\* their input order
C13_Witness ==
    /\ stage \in AfterPrioritize
    /\ Len(scan_findings) = 2
    /\ scan_findings[1].priority_score = scan_findings[2].priority_score
    /\ scan_findings[1] # scan_findings[2]
    /\ prioritized = scan_findings

\* the weight the spec gives a severity
C14_Weight(severity) ==
    IF severity = "critical" THEN 100
    ELSE IF severity = "high" THEN 80
    ELSE IF severity = "medium" THEN 60
    ELSE IF severity = "low" THEN 40
    ELSE IF severity = "info" THEN 20
    ELSE 50

\* C14: priority_score = weight of the severity + boost of the CWE, with the
\* weights critical 100, high 80, medium 60, low 40, info 20, any other 50 and
\* the boost 20 for CWE-94, CWE-89, CWE-78, 10 for CWE-79, CWE-22, CWE-798 and
\* 0 otherwise; so a critical CWE-94 scores 120, a high CWE-798 scores 90 and
\* a medium CWE-327 scores 60.
C14_ScoreIsWeightPlusBoost ==
    stage \in AfterPrioritize =>
        \A i \in 1..Len(scan_findings) :
            LET f == scan_findings[i]
            IN /\ f.cwe \in {"CWE-94", "CWE-89", "CWE-78"}
                      => f.priority_score = C14_Weight(f.severity) + 20
               /\ f.cwe \in {"CWE-79", "CWE-22", "CWE-798"}
                      => f.priority_score = C14_Weight(f.severity) + 10
               /\ f.cwe \notin {"CWE-94", "CWE-89", "CWE-78",
                                 "CWE-79", "CWE-22", "CWE-798"}
                      => f.priority_score = C14_Weight(f.severity)
               /\ (f.severity = "critical" /\ f.cwe = "CWE-94")
                      => f.priority_score = 120
               /\ (f.severity = "high" /\ f.cwe = "CWE-798")
                      => f.priority_score = 90
               /\ (f.severity = "medium" /\ f.cwe = "CWE-327")
                      => f.priority_score = 60

\* a high hardcoded-secret finding (CWE-798) and a finding of a severity that
\* is none of the five, with the top boost, were scored
C14_Witness ==
    /\ stage \in AfterPrioritize
    /\ \E i, j \in 1..Len(scan_findings) :
           /\ scan_findings[i].severity = "high"
           /\ scan_findings[i].cwe = "CWE-798"
           /\ scan_findings[i].priority_score = 90
           /\ scan_findings[j].severity = "unknown"
           /\ scan_findings[j].cwe = "CWE-89"
           /\ scan_findings[j].priority_score = 70

\* the rank of a tier, low to critical
C15_Rank(priority) ==
    CASE priority = "low" -> 0
      [] priority = "medium" -> 1
      [] priority = "high" -> 2
      [] priority = "critical" -> 3

\* C15: the tier is critical for a score of 90 or more, high for 70 to 89,
\* medium for 50 to 69 and low below 50; the scores 90, 70 and 50 themselves
\* give critical, high and medium; and a finding of a higher score never gets
\* a lower tier.
C15_TierThresholds ==
    stage \in AfterPrioritize =>
        /\ \A i \in 1..Len(scan_findings) :
               LET f == scan_findings[i]
               IN /\ f.priority = "critical" <=> f.priority_score >= 90
                  /\ f.priority = "high"
                         <=> (f.priority_score >= 70 /\ f.priority_score <= 89)
                  /\ f.priority = "medium"
                         <=> (f.priority_score >= 50 /\ f.priority_score <= 69)
                  /\ f.priority = "low" <=> f.priority_score < 50
        /\ \A i, j \in 1..Len(scan_findings) :
               scan_findings[i].priority_score <= scan_findings[j].priority_score
                   => C15_Rank(scan_findings[i].priority)
                          <= C15_Rank(scan_findings[j].priority)

\* a finding of score exactly 90 and a finding of score exactly 50 were tiered
C15_Witness ==
    /\ stage \in AfterPrioritize
    /\ \E i, j \in 1..Len(scan_findings) :
           /\ scan_findings[i].priority_score = 90
           /\ scan_findings[i].priority = "critical"
           /\ scan_findings[j].priority_score = 50
           /\ scan_findings[j].priority = "medium"

----------------------------------------------------------------------------
(* Claims about the walk and the rule matching (SpecScan) *)

\* the file of the repository with the relative path
FileWithPath(path) ==
    FileAt(CHOOSE e \in repo_files : rel_path(FileAt(e)) = path)

\* the findings the scan holds for the file with the path, in order
FindingsOf(path) ==
    LET OfFile(f) == f.file = path
    IN SelectSeq(scan_findings, OfFile)

\* the pairs (line number, rule number) of a file such that the line is
\* scanned and the rule matches it
MatchingPairs(lines, rules) ==
    { p \in (1..Len(lines)) \X (1..Len(rules)) :
          /\ ~skipped_line(strip(lines[p[1]]))
          /\ re_search(rules[p[2]], lines[p[1]]) }

\* the place of a pair among pairs, lines first, then rules in list order
PairRank(pairs, p) ==
    1 + Cardinality({ q \in pairs :
                          q[1] < p[1] \/ (q[1] = p[1] /\ q[2] < p[2]) })

\* found holds one finding for every pair, in the order of the pairs
OneFindingPerMatch(found, lines, rules, pairs) ==
    /\ Len(found) = Cardinality(pairs)
    /\ \A p \in pairs :
           /\ found[PairRank(pairs, p)].line = p[1]
           /\ found[PairRank(pairs, p)].issue = rules[p[2]].issue
           /\ found[PairRank(pairs, p)].severity = rules[p[2]].severity
           /\ lower(found[PairRank(pairs, p)].exact_match) = rules[p[2]].text

\* the rules the file with the path is scanned with
RulesFor(file) ==
    get_security_patterns(scan_language(file.ext, languages))

UnderExcludedDir(path) ==
    \E k \in 1..(Len(path) - 1) : path[k] \in excluded_dirs

\* C17: no finding carries the path of a file that lies under a directory
\* whose name is in the exclusion set, at any depth below the root: such a
\* directory is pruned before the walk descends into it, so no file under it
\* is visited.
C17_ExcludedDirsPruned ==
    /\ \A i \in 1..Len(scan_findings) : ~UnderExcludedDir(scan_findings[i].file)
    /\ \A i \in 1..Len(scan_log) : ~UnderExcludedDir(scan_log[i].file)
    /\ \A i \in 1..Len(walk_stack) :
           \A k \in 1..Len(walk_stack[i]) : walk_stack[i][k] \notin excluded_dirs

\* the walk has returned with a finding of a file two directories down, from
\* a repository that holds a file with matching lines in an excluded
\* directory below a directory that is not excluded
C17_Witness ==
    /\ stage = "prioritize"
    /\ \E e \in repo_files :
           e.dir = <<"src", "build">> /\ e.kind = "py_two_rules"
    /\ \E i \in 1..Len(scan_findings) :
           scan_findings[i].file = <<"src", "lib", "a.py">>

\* the file cannot be read: its size or its content
FailingFile(e) == FileAt(e).stat = "error" \/ ~FileAt(e).readable

\* the findings of a walk of the files, computed file by file
FindingsOfWalk(files) ==
    LET walked == walked_files(files)
    IN concat([k \in 1..Len(walked) |->
                   scan_visit(walked[k], languages).findings])

\* the paths of the files a walk comes by
PathsOfWalk(files) ==
    LET walked == walked_files(files)
    IN [k \in 1..Len(walked) |-> rel_path(walked[k])]

\* C18: a read or decode error on one file never aborts the walk: the walk
\* visits every file it would visit otherwise, the failing file contributes
\* no finding, and pattern_detector.scan returns the findings of every other
\* file, in the order it would return them if the failing files were absent.
C18_ReadErrorNeverAborts ==
    stage = "prioritize" =>
        /\ [i \in 1..Len(scan_log) |-> scan_log[i].file] = PathsOfWalk(repo_files)
        /\ \A i \in 1..Len(scan_log) :
               scan_log[i].outcome \in {"stat_error", "read_error"}
                   => /\ scan_log[i].found = 0
                      /\ FindingsOf(scan_log[i].file) = <<>>
        /\ scan_findings
               = FindingsOfWalk({ e \in repo_files : ~FailingFile(e) })

\* the walk has returned: a file could not be read and a file visited after
\* it gave findings
C18_Witness ==
    /\ stage = "prioritize"
    /\ \E i, j \in 1..Len(scan_log) :
           /\ i < j
           /\ scan_log[i].outcome = "read_error"
           /\ scan_log[j].found > 0

\* C19: the scan has a deadline (300 seconds by default): once it has
\* expired no new file is dispatched, and the scan returns a partial result
\* that is flagged as timed out.
C19_DeadlineStopsDispatch ==
    /\ \A i \in 1..Len(scan_log) :
           scan_log[i].outcome = "scanned" => scan_log[i].at <= ScanTimeout
    /\ \A i \in 1..Len(scan_result) :
           elapsed > ScanTimeout
               => /\ scan_result[i].kind = "returned"
                  /\ "timed_out" \in DOMAIN scan_result[i].value

----------------------------------------------------------------------------
(* Claims about SecurityScanner.scan (SpecScan) *)

\* C20: a scan-level error (an invalid root path or URL, a failure in any
\* stage) never leaves SecurityScanner.scan as an exception: the call returns
\* exactly one result, with success = false and the text of the error; a run
\* without an error returns exactly one result with success = true.
C20_ErrorsReturnedNotRaised ==
    /\ Len(scan_result) <= 1
    /\ Len(scan_result) = 1 <=> stage = "done"
    /\ \A i \in 1..Len(scan_result) :
           /\ scan_result[i].kind = "returned"
           /\ scan_result[i].value.repo = request.target
           /\ exception # <<>>
                  => /\ scan_result[i].value.success = FALSE
                     /\ scan_result[i].value.error = exception[1].text
           /\ exception = <<>> => scan_result[i].value.success = TRUE
           /\ request.target = "invalid"
                  => scan_result[i].value.success = FALSE

\* a scan whose walk gave findings has returned a failure for an error of a
\* later stage
C20_Witness ==
    /\ stage = "done"
    /\ scan_findings # <<>>
    /\ exception # <<>>
    /\ exception[1].type # "ValueError"
    /\ scan_result[1].value.success = FALSE

\* the fields of a finding the scanner and the classifier set
C21_Fields ==
    {"file", "line", "issue", "severity", "code", "cwe", "priority_score",
     "priority"}

\* C21: explain_and_suggest only annotates. Once the explain stage of a scan
\* has run, its output is as long as the prioritized list it was given, and
\* the i-th output finding has the file, line, issue, severity, code, cwe,
\* priority_score and priority of the i-th prioritized finding: nothing is
\* reordered, removed or added.
C21_ExplainOnlyAnnotates ==
    stage \in {"summary", "complete"} =>
        /\ Len(explained) = Len(prioritized)
        /\ \A i \in 1..Len(prioritized) :
               /\ C21_Fields \subseteq DOMAIN explained[i]
               /\ \A k \in C21_Fields : explained[i][k] = prioritized[i][k]

\* the explain stage has annotated findings of different scores, two of them
\* of one line, and every one of them carries the three annotations
C21_Witness ==
    /\ stage = "summary"
    /\ \E i, j \in 1..Len(explained) :
           /\ i < j
           /\ explained[i].file = explained[j].file
           /\ explained[i].line = explained[j].line
    /\ \E i, j \in 1..Len(explained) :
           explained[i].priority_score > explained[j].priority_score
    /\ \A i \in 1..Len(explained) :
           {"explanation", "remediation", "references"}
               \subseteq DOMAIN explained[i]

\* the line of the file, as the call found it, that the call's result names
ReplacedLine(c) == PreLines(c)[c.result.line]

\* the text holds the code text, whitespace apart
HoldsUpToWhitespace(text, code) ==
    contains(without_whitespace(text), without_whitespace(code))

\* C22: a successful patch only overwrites the offending text. Whenever
\* apply_fix succeeds, what it replaced in the file as it found it is the
\* finding's code text: the line strategy rewrote a line that holds the code
\* text (whitespace apart), the block strategy replaced the code text verbatim,
\* and the fuzzy strategy rewrote a line that is the code text up to
\* whitespace.
C22_OnlyOffendingTextOverwritten ==
    \A k \in CallIds :
        LET c == calls[k]
        IN c.result.success =>
               CASE c.result.strategy = "line_replacement" ->
                        HoldsUpToWhitespace(ReplacedLine(c), strip(c.finding.code))
                 [] c.result.strategy = "block_replacement" ->
                        contains(PreContent(c), strip(c.finding.code))
                 [] c.result.strategy = "fuzzy_replacement" ->
                        without_whitespace(ReplacedLine(c))
                            = without_whitespace(strip(c.finding.code))

\* the call's finding names a line of the file, as the call found it, that is
\* the finding's code text
CodeAtLocation(c) ==
    /\ ReachedStrategies(c)
    /\ c.finding.line \in 1..Len(PreLines(c))
    /\ strip(PreLines(c)[c.finding.line]) = strip(c.finding.code)

\* C23: when two findings of one batch target the same text at the same
\* location (same file, same line, same code text, the text being there when
\* the first is attempted), the first attempt succeeds and the second attempt
\* fails and leaves the file as the first left it: the location is rewritten
\* once, not twice.
C23_SecondAttemptFails ==
    \A i, j \in CallIds :
        (/\ i < j
         /\ calls[i].finding = calls[j].finding
         /\ CodeAtLocation(calls[i])
         /\ ReachedStrategies(calls[j]))
            => /\ calls[i].result.success
               /\ ~calls[j].result.success
               /\ calls[j].post = calls[j].pre

\* the strategy the result of a successful strategy names
StrategyName(tried) ==
    CASE tried = "line" -> "line_replacement"
      [] tried = "block" -> "block_replacement"
      [] tried = "fuzzy" -> "fuzzy_replacement"

\* the call put its replacement, indented, in the place of line n of the file
\* and wrote nothing else
OnlyLineRewritten(c, n) ==
    /\ n \in 1..Len(PreLines(c))
    /\ \E indent \in 0..Len(PreLines(c)[n]) :
           PostContent(c) =
               join(<<NL>>, [PreLines(c) EXCEPT
                                 ![n] = spaces(indent) \o strip(c.fix.solution_code)])

\* the call replaced one occurrence of its code text and nothing else
OnlyBlockReplaced(c) ==
    \E i \in 1..Len(PreContent(c)) :
        /\ OccursAt(PreContent(c), strip(c.finding.code), i)
        /\ PostContent(c) = splice(PreContent(c), i, Len(strip(c.finding.code)),
                                   strip(c.fix.solution_code))

\* C24: within one apply_fix the strategies are tried in the order line,
\* block, fuzzy and the first success wins. The line strategy is tried only
\* when the replacement is single-line and the line number is greater than 0;
\* block is tried only when the line strategy was not tried or failed (the
\* line number is past the end of the file); fuzzy is tried only when the code
\* text does not occur verbatim in the file. At most one strategy writes the
\* file: a failed attempt leaves it as it was, a successful one differs from
\* it by the write of the last strategy tried alone, and the result's
\* strategy field names that strategy.
C24_StrategyOrder ==
    \A k \in CallIds :
        LET c == calls[k]
            Tried(s) == \E i \in 1..Len(c.tried) : c.tried[i] = s
        IN /\ ~ReachedStrategies(c) => c.tried = <<>>
           /\ ReachedStrategies(c) =>
                  /\ c.tried \in { <<"line">>, <<"line", "block">>,
                                   <<"line", "block", "fuzzy">>,
                                   <<"block">>, <<"block", "fuzzy">> }
                  /\ Tried("line") =>
                         /\ \A i \in 1..Len(strip(c.fix.solution_code)) :
                                strip(c.fix.solution_code)[i] # NL
                         /\ c.finding.line > 0
                  /\ (Tried("block") /\ Tried("line")) =>
                         c.finding.line > Len(PreLines(c))
                  /\ Tried("fuzzy") =>
                         ~contains(PreContent(c), strip(c.finding.code))
                  /\ IF c.result.success
                     THEN /\ c.result.strategy
                                 = StrategyName(c.tried[Len(c.tried)])
                          /\ CASE c.result.strategy = "line_replacement" ->
                                      OnlyLineRewritten(c, c.finding.line)
                               [] c.result.strategy = "block_replacement" ->
                                      OnlyBlockReplaced(c)
                               [] c.result.strategy = "fuzzy_replacement" ->
                                      OnlyLineRewritten(c, c.result.line)
                     ELSE /\ c.result.strategy = "none"
                          /\ c.post = c.pre

\* one patcher has made an attempt that the line strategy won and an attempt
\* in which the line strategy failed, the verbatim match failed and the fuzzy
\* strategy wrote
C24_Witness ==
    \E i, j \in CallIds :
        /\ calls[i].tried = <<"line">>
        /\ calls[i].result.strategy = "line_replacement"
        /\ calls[j].tried = <<"line", "block", "fuzzy">>
        /\ calls[j].result.strategy = "fuzzy_replacement"
        /\ calls[j].post # calls[j].pre

\* the calls made so far that succeeded
Successes == { k \in CallIds : calls[k].result.success }

\* the call's finding names a line of the file as it was before the first
\* call (the file the findings were made on), and that line is the finding's
\* code text
TargetsOriginalLine(c) ==
    LET original == split_lines(calls[1].pre[c.finding.file])
    IN /\ OnRegularFile(c)
       /\ c.finding.line \in 1..Len(original)
       /\ strip(original[c.finding.line]) = strip(c.finding.code)

\* C25: patches to one file are cumulative. Every apply_fix reads the file as
\* the previous attempt left it, and after any sequence of successful patches
\* that target different lines of the same file (each finding naming a line of
\* the file the findings were made on, a line that is its code text), the file
\* contains the replacement of each of them: no earlier successful patch is
\* lost.
C25_PatchesAreCumulative ==
    /\ \A k \in CallIds : k > 1 => calls[k].pre = calls[k - 1].post
    /\ (/\ \A k \in Successes : TargetsOriginalLine(calls[k])
        /\ \A i, j \in Successes :
               i # j => /\ calls[i].finding.file = calls[j].finding.file
                        /\ calls[i].finding.line # calls[j].finding.line)
           => \A k \in Successes :
                  contains(fs[calls[k].finding.file],
                           strip(calls[k].fix.solution_code))

\* the last apply_fix call made
LastCall == calls[Len(calls)]

CommentPrefix(language) ==
    IF language \in {"python", "ruby"} THEN <<"#">> ELSE <<"/", "/">>

\* the line is blank or a comment of the language
BlankOrOwnComment(language, line) ==
    \/ strip(line) = <<>>
    \/ startswith(strip(line), CommentPrefix(language))

\* C27: comment skipping is language-specific. A line of a scanned file is
\* left unscanned only when it is blank or starts, after leading whitespace,
\* with the comment prefix of the file's own language: the lines of the file
\* that have a finding are the lines that are neither blank nor a comment of
\* the file's language and that a rule of the language matches. So a line
\* starting with # in a C-family file and a line starting with // in a
\* script-style file are scanned like any other line.
C27_CommentSkippingByLanguage ==
    \A i \in 1..Len(scan_log) :
        scan_log[i].outcome = "scanned" =>
            LET file == FileWithPath(scan_log[i].file)
                language == scan_language(file.ext, languages)
                rules == get_security_patterns(language)
                found == FindingsOf(scan_log[i].file)
            IN \A n \in 1..Len(file.lines) :
                   (\E k \in 1..Len(found) : found[k].line = n)
                       <=> /\ ~BlankOrOwnComment(language, file.lines[n])
                           /\ \E r \in 1..Len(rules) :
                                  re_search(rules[r], file.lines[n])

\* the number a string of decimal digits writes
RECURSIVE ParseNat(_)
ParseNat(digits) ==
    IF digits = <<>> THEN 0
    ELSE 10 * ParseNat(SubSeq(digits, 1, Len(digits) - 1))
             + (CHOOSE d \in 0..9 : Digits[d + 1] = digits[Len(digits)])

\* a context entry read back: whether it carries the match marker, the line
\* number it is tagged with, and the text it carries
ParsedEntry(entry) ==
    LET rest == SubSeq(entry, 5, Len(entry))
        colon == find(rest, <<":", " ">>)
    IN [marked |-> SubSeq(entry, 1, 4) = <<">", ">", ">", " ">>,
        plain |-> SubSeq(entry, 1, 4) = <<" ", " ", " ", " ">>,
        number |-> ParseNat(SubSeq(rest, 1, colon - 1)),
        text |-> SubSeq(rest, colon + 2, Len(rest))]

\* C28: for a finding at line n of a file with L lines, 1 <= n <= L and the
\* context holds exactly the lines max(1, n - 3) .. min(L, n + 3) in ascending
\* order, each tagged with its own absolute 1-based line number and carrying
\* the line's text unchanged; exactly one entry, the one for line n, carries
\* the match marker.
C28_ContextWindow ==
    stage = "scanned" =>
        \A i \in 1..Len(scan_findings) :
            LET n == scan_findings[i].line
                L == Len(request.lines)
                first == IF n - 3 < 1 THEN 1 ELSE n - 3
                last == IF n + 3 > L THEN L ELSE n + 3
                context == scan_findings[i].context
            IN /\ n \in 1..L
               /\ Len(context) = last - first + 1
               /\ \A k \in 1..Len(context) :
                      /\ ParsedEntry(context[k]).number = first + k - 1
                      /\ ParsedEntry(context[k]).text
                             = request.lines[first + k - 1]
                      /\ ParsedEntry(context[k]).marked <=> first + k - 1 = n
                      /\ ParsedEntry(context[k]).plain <=> first + k - 1 # n

\* scan_file has returned, from a file of at least ten lines, a finding of
\* the first line, a finding of the last line and a finding with three lines
\* of context on either side, one of them blank
C28_Witness ==
    /\ stage = "scanned"
    /\ Len(request.lines) >= 10
    /\ \E i, j, k \in 1..Len(scan_findings) :
           /\ scan_findings[i].line = 1
           /\ Len(scan_findings[i].context) = 4
           /\ scan_findings[j].line = Len(request.lines)
           /\ Len(scan_findings[j].context) = 4
           /\ Len(scan_findings[k].context) = 7
           /\ request.lines[scan_findings[k].line + 1] = <<>>

\* the text has the form CWE-<number>
IsCweNumber(text) ==
    /\ Len(text) > 4
    /\ SubSeq(text, 1, 4) = <<"C", "W", "E", "-">>
    /\ \A i \in 5..Len(text) : \E d \in 1..10 : Digits[d] = text[i]

\* C29: every issue kind used by any rule of any language has its own
\* CWE_MAPPINGS entry with a weakness id of the form CWE-<number>. So no
\* finding of a scan carries the weakness id "Unknown", the reference URLs are
\* derived from the id of every finding (the id splits at its dash into two
\* parts), and the explain stage never fails on a finding. The tables are
\* looked at when a scan begins, the findings throughout the scan.
C29_EveryRuleKindMapped ==
    /\ stage = "init" =>
           \A language \in PatternLanguages :
               /\ \A kind \in issue_kinds(language) :
                      /\ get_cwe_mapping(kind) # "Unknown"
                      /\ IsCweNumber(cwe_text(get_cwe_mapping(kind)))
                      /\ has_cwe_number(get_cwe_mapping(kind))
               /\ \A r \in 1..Len(get_security_patterns(language)) :
                      get_security_patterns(language)[r].issue
                          \in issue_kinds(IF language = "typescript"
                                          THEN "javascript" ELSE language)
    /\ \A i \in 1..Len(scan_findings) :
           /\ scan_findings[i].cwe # "Unknown"
           /\ IsCweNumber(cwe_text(scan_findings[i].cwe))
    /\ \A i \in 1..Len(exception) : exception[i].type # "IndexError"
    /\ \A i \in 1..Len(explained) :
           /\ Len(explained[i].references) = 2
           /\ explained[i].references[1]
                  = <<"https://cwe.mitre.org/data/definitions/">>
                        \o SubSeq(cwe_text(explained[i].cwe), 5,
                                  Len(cwe_text(explained[i].cwe)))
                        \o <<".html">>

\* the explain stage has run on findings of more than one weakness id, from
\* rules of two languages, and has given each its references
C29_Witness ==
    /\ stage = "summary"
    /\ \E i, j \in 1..Len(explained) :
           /\ explained[i].cwe # explained[j].cwe
           /\ explained[i].language # explained[j].language
           /\ Len(explained[i].references) = 2

\* the sum of the counts of a dictionary of counts
RECURSIVE SumOfCounts(_)
SumOfCounts(counts) ==
    IF DOMAIN counts = {} THEN 0
    ELSE LET v == CHOOSE x \in DOMAIN counts : TRUE
         IN counts[v]
                + SumOfCounts([x \in DOMAIN counts \ {v} |-> counts[x]])

\* how many findings of the list have the severity
NumberOf(list, severity) ==
    Cardinality({ i \in 1..Len(list) : list[i].severity = severity })

\* C30: the summary of a scan is a consistent aggregate of the final finding
\* sequence. For an empty sequence the status is 'clean', the risk level low
\* and top_issues empty. Otherwise the severity counts sum to the number of
\* findings and so do the category counts, top_issues is the first min(5, n)
\* findings in their order, and the risk level is critical iff at least one
\* finding has severity critical, otherwise high iff more than 3 findings have
\* severity high, otherwise medium iff at least one has severity high,
\* otherwise low. The result scan returns carries this summary.
C30_SummaryIsConsistent ==
    scan_summary # <<>> =>
        LET s == scan_summary[1]
            n == Len(explained)
            top == IF n < 5 THEN n ELSE 5
            critical == NumberOf(explained, "critical")
            high == NumberOf(explained, "high")
        IN /\ n = 0 => /\ s.status = "clean"
                       /\ s.risk_level = "low"
                       /\ s.top_issues = <<>>
           /\ n > 0 =>
                  /\ SumOfCounts(s.severity_counts) = n
                  /\ SumOfCounts(s.category_counts) = n
                  /\ Len(s.top_issues) = top
                  /\ \A i \in 1..top :
                         \A k \in DOMAIN s.top_issues[i] :
                             s.top_issues[i][k] = explained[i][k]
                  /\ \A i \in 1..top :
                         {"file", "line", "issue", "severity", "cwe"}
                             \subseteq DOMAIN s.top_issues[i]
                  /\ s.risk_level =
                         (IF critical >= 1 THEN "critical"
                          ELSE IF high > 3 THEN "high"
                          ELSE IF high >= 1 THEN "medium"
                          ELSE "low")
           /\ stage = "done" => scan_result[1].value.summary = s

\* scan has returned the summary of six findings, none critical and four of
\* high severity in two categories: the risk level is high and top_issues
\* holds five of them
C30_Witness ==
    /\ stage = "done"
    /\ Len(explained) = 6
    /\ NumberOf(explained, "high") = 4
    /\ explained[6].severity = "high"
    /\ scan_summary[1].risk_level = "high"
    /\ Len(scan_summary[1].top_issues) = 5
    /\ Cardinality(DOMAIN scan_summary[1].category_counts) = 3

====
